---- MODULE Spec2Model ----
(***************************************************************************)
(* A model of domain_finder.py: the candidate generator                    *)
(* (generate_domains), the ledger (checked_domains.csv and the in-memory   *)
(* DataFrame), the DNS stage, and the registrar verification stage in its  *)
(* sequential and its parallel strategy.                                   *)
(*                                                                         *)
(* Strings are TLC strings; a character set is a sequence of one-character *)
(* strings, so that a set given with a repeated character ("aa") is a      *)
(* different input from the set without the repetition ("a").              *)
(***************************************************************************)
EXTENDS Integers, Sequences, FiniteSets, TLC

\* ------------------------------------------------------------ bounds
\* Longest character set drawn for the generator's inputs.
MaxAlpha == 2
\* Largest --length drawn (the smallest is -1).
MaxLen == 2
\* Largest --limit drawn (the smallest is -1).
MaxLimit == 3
\* The exclude sets drawn are the subsets of the first ExPool names of the
\* unrestricted enumeration.
ExPool == 3

\* ------------------------------------------------------------ helpers
Range(s) == {s[i] : i \in 1..Len(s)}

Min(a, b) == IF a <= b THEN a ELSE b

RECURSIVE Pow(_, _)
\* len(characters) ** effective_length, for a non-negative exponent.
Pow(b, e) == IF e <= 0 THEN 1 ELSE b * Pow(b, e - 1)

RECURSIVE Join(_)
\* ''.join(combo)
Join(combo) == IF combo = <<>> THEN "" ELSE Head(combo) \o Join(Tail(combo))

\* string.ascii_lowercase and string.digits, one character per element.
ASCII_LOWERCASE ==
    << "a", "b", "c", "d", "e", "f", "g", "h", "i", "j", "k", "l", "m",
       "n", "o", "p", "q", "r", "s", "t", "u", "v", "w", "x", "y", "z" >>

DIGITS == << "0", "1", "2", "3", "4", "5", "6", "7", "8", "9" >>

\* str.lower() on the characters a pattern is drawn from.
Lower(c) == CASE c = "L" -> "l" [] c = "D" -> "d" [] OTHER -> c

\* 'c' in pattern.lower()
InLower(c, pattern) == \E i \in 1..Len(pattern) : Lower(pattern[i]) = c

\* The character set in effect: `pattern`, when it is given and names letters
\* or digits, replaces `characters`.  An absent pattern (None) and the empty
\* pattern are both <<>>.
EffectiveCharacters(characters, pattern) ==
    IF pattern # <<>>
    THEN LET char_set == (IF InLower("l", pattern) THEN ASCII_LOWERCASE ELSE <<>>)
                         \o (IF InLower("d", pattern) THEN DIGITS ELSE <<>>)
         IN  IF char_set # <<>> THEN char_set ELSE characters
    ELSE characters

\* itertools.product(pool, repeat=k), variant whose FIRST position varies
\* fastest (a plausible slip: y + x for x + y).
RECURSIVE productRightSlowest(_, _)
productRightSlowest(pool, repeat) ==
    IF repeat = 0 THEN << <<>> >>
    ELSE LET result == productRightSlowest(pool, repeat - 1)
             n == Len(pool)
         IN  [m \in 1..(Len(result) * n) |->
                 <<pool[((m - 1) % n) + 1]>> \o result[((m - 1) \div n) + 1]]

\* itertools.product(pool, repeat=k) as the library documents it:
\*   result = [[]]; for pool in pools: result = [x+[y] for x in result for y in pool]
RECURSIVE product(_, _)
product(pool, repeat) ==
    IF repeat = 0 THEN << <<>> >>
    ELSE LET result == product(pool, repeat - 1)
             n == Len(pool)
         IN  [m \in 1..(Len(result) * n) |->
                 Append(result[((m - 1) \div n) + 1], pool[((m - 1) % n) + 1])]

\* f"{prefix}{domain_part}{suffix}{tld}"
FullDomain(prefix, combo, suffix, tld) == prefix \o Join(combo) \o suffix \o tld

\* The exclusion test, variant that never skips.
AlreadyProcessedNever(full_domain, exclude_set) == FALSE

\* if full_domain in exclude_set: continue
AlreadyProcessed(full_domain, exclude_set) == full_domain \in exclude_set

\* The limit test, variant that stops one name late.
LimitReachedLate(limit, count) == limit > 0 /\ count > limit

\* if limit > 0 and count >= limit: break
LimitReached(limit, count) == limit > 0 /\ count >= limit

RECURSIVE GenerateLoop(_, _, _, _, _)
\* The for loop of generate_domains over the combinations from the i-th on;
\* `a` holds the arguments.
GenerateLoop(a, combos, i, generated, count) ==
    IF i > Len(combos) THEN generated
    ELSE LET full_domain == FullDomain(a.prefix, combos[i], a.suffix, a.tld)
         IN  IF AlreadyProcessed(full_domain, a.exclude_set)
             THEN GenerateLoop(a, combos, i + 1, generated, count)
             ELSE IF LimitReached(a.limit, count + 1)
                  THEN Append(generated, full_domain)
                  ELSE GenerateLoop(a, combos, i + 1,
                                    Append(generated, full_domain), count + 1)

\* generate_domains: the list it returns.  It has no error exit: a length
\* that is not positive is logged and answered with the empty list.
generate_domains(chars, len, lim, pre, suf, t, excl, pat) ==
    LET cs == EffectiveCharacters(chars, pat)
        effective_length == len
    IN  IF effective_length <= 0 THEN <<>>
        ELSE GenerateLoop([limit |-> lim, prefix |-> pre, suffix |-> suf,
                           tld |-> t, exclude_set |-> excl],
                          product(cs, effective_length), 1, <<>>, 0)

\* ------------------------------------------------------------ state
VARIABLES
    \* generate_domains' arguments (main's args); in a pipeline run
    \* exclude_set is main's checked_set and generated is main's domains
    characters, length, limit, prefix, suffix, tld, pattern, exclude_set,
    \* the list generate_domains returned, and whether it raised
    generated, gen_raised,
    \* the previous call's list, once the ledger took it up
    first_generated,
    \* the caller's position
    gen_pc,
    \* checked_domains.csv: [exists, rows]
    check_file,
    \* available_domains.csv: the lines appended, <<domain, note>>
    available_file,
    \* config.json: the providers it lists, [name, active, api_key]
    config_file,
    \* errors.log: the lines appended, <<domain, error>>
    error_file,
    \* main's DataFrame (checked_df / updated_df)
    checked_df,
    \* main's position, and the number of runs ended
    pc, runs,
    \* what the run has logged so far (the messages the model tells apart),
    \* and the exception main has let through to __main__, or "None"
    run_log, main_raised,
    \* args.verify_api, args.only_verify_api, args.api_workers
    verify_api, only_verify_api, api_workers,
    \* run_dns_batch: the futures not yet consumed (positions of domains),
    \* new_rows, and for each row the future it came from, [i, resolution]
    pending, new_rows, probes,
    \* the verification stage: its domains, the sequential loop's position,
    \* the providers' lanes (each with its clock, in seconds since its thread
    \* began, and the part of it spent in check calls), the collected results
    to_verify, seq_i, lanes, results,
    \* the sequential loop's clock, in seconds slept since it began, and the
    \* check calls it has issued, in order, [provider, at]
    seq_clock, seq_starts,
    \* the check calls the stage has issued: for each domain checked, its
    \* calls in order, [domain, provider, available]
    calls,
    \* a provider client's batch_check: the client, the number of domains it
    \* was given, its max_errors, the loop's position, consecutive_errors, the
    \* results so far (the final outcome of each domain), and its position
    batch_provider, batch_domains, batch_max_errors, batch_i,
    consecutive_errors, batch_results, batch_pc,
    \* run_full_scan.py: full_scan_progress.csv (the prefix of each row),
    \* args.restart and args.force, the prefix list, processed_prefixes, the
    \* loop's position, the prefixes handed to run_domain_checker so far, and
    \* the script's position
    progress_file, restart, force, prefixes, processed_prefixes, scan_i,
    scanned, scan_pc

genVars == << characters, length, limit, prefix, suffix, tld, pattern,
              exclude_set, generated, gen_raised, first_generated, gen_pc >>

argVars == << characters, length, limit, prefix, suffix, tld, pattern,
              verify_api, only_verify_api, api_workers >>

fileVars == << check_file, available_file, config_file, error_file >>

dnsVars == << pending, new_rows, probes >>

apiVars == << to_verify, seq_i, seq_clock, seq_starts, lanes, results, calls >>

pipeVars == << check_file, available_file, config_file, error_file,
               checked_df, pc, runs, run_log, main_raised,
               verify_api, only_verify_api, api_workers,
               pending, new_rows, probes,
               to_verify, seq_i, seq_clock, seq_starts, lanes, results, calls >>

batchVars == << batch_provider, batch_domains, batch_max_errors, batch_i,
               consecutive_errors, batch_results, batch_pc >>

scanVars == << progress_file, restart, force, prefixes, processed_prefixes,
              scan_i, scanned, scan_pc >>

toolVars == << batchVars, scanVars >>

vars == << genVars, pipeVars, toolVars >>

\* No batch_check is under way and run_full_scan.py is not running.
ToolsIdle ==
    /\ batch_provider = "porkbun"
    /\ batch_domains = 0
    /\ batch_max_errors = 0
    /\ batch_i = 0
    /\ consecutive_errors = 0
    /\ batch_results = <<>>
    /\ batch_pc = "idle"
    /\ progress_file = <<>>
    /\ restart = FALSE
    /\ force = FALSE
    /\ prefixes = <<>>
    /\ processed_prefixes = {}
    /\ scan_i = 0
    /\ scanned = <<>>
    /\ scan_pc = "idle"

\* ------------------------------------------------------------ inputs
Chars == {"a", "b"}

Alphabets == UNION {[1..n -> Chars] : n \in 0..MaxAlpha}

Patterns == { <<>>, <<"l">>, <<"d">>, <<"L", "d">>, <<"x">> }

\* (prefix, suffix, tld)
Affixes == { <<"", "", ".com">>, <<"x", "", ".com">>, <<"", "y", ".net">> }

\* Every name the arguments can produce, in generation order.
AllNames(chars, len, pre, suf, t, pat) ==
    generate_domains(chars, len, 0, pre, suf, t, {}, pat)

ExcludeSets(chars, len, pre, suf, t, pat) ==
    LET all == AllNames(chars, len, pre, suf, t, pat)
    IN  SUBSET {all[i] : i \in 1..Min(ExPool, Len(all))}

\* ------------------------------------------------------------ generator
\* No run has started: no ledger file, no export, an empty DataFrame.
PipeIdle ==
    /\ check_file = [exists |-> FALSE, rows |-> <<>>]
    /\ available_file = <<>>
    /\ error_file = <<>>
    /\ checked_df = <<>>
    /\ pc = "idle"
    /\ runs = 0
    /\ run_log = {}
    /\ main_raised = "None"
    /\ verify_api = FALSE
    /\ only_verify_api = FALSE
    /\ api_workers = 1
    /\ pending = {}
    /\ new_rows = <<>>
    /\ probes = <<>>
    /\ to_verify = <<>>
    /\ seq_i = 0
    /\ seq_clock = 0
    /\ seq_starts = <<>>
    /\ lanes = <<>>
    /\ results = <<>>
    /\ calls = <<>>
    /\ ToolsIdle

InitGen ==
    /\ characters \in Alphabets
    /\ pattern \in Patterns
    /\ length \in -1..MaxLen
    /\ limit \in -1..MaxLimit
    \* a pattern draws on 26 or 36 characters: it is tried on one position
    /\ pattern # <<>> => length <= 1 /\ characters = <<"a", "b">>
    /\ \E af \in Affixes : prefix = af[1] /\ suffix = af[2] /\ tld = af[3]
    /\ exclude_set \in ExcludeSets(characters, length, prefix, suffix, tld, pattern)
    /\ generated = <<>>
    /\ gen_raised = FALSE
    /\ first_generated = <<>>
    /\ gen_pc = "call"
    /\ config_file = <<>>
    /\ PipeIdle

\* domains = generate_domains(characters=..., exclude_set=checked_set, ...)
GenerateCall ==
    /\ gen_pc \in {"call", "resumed"}
    /\ generated' = generate_domains(characters, length, limit, prefix, suffix,
                                     tld, exclude_set, pattern)
    /\ gen_raised' = FALSE
    /\ gen_pc' = IF gen_pc = "call" THEN "returned" ELSE "returned_again"
    /\ UNCHANGED << toolVars, characters, length, limit, prefix, suffix, tld, pattern,
                    exclude_set, first_generated, pipeVars >>

\* The ledger takes up every generated name (one row per name, run_dns_batch)
\* and the next run loads it as its exclude set (checked_set), with the same
\* arguments.
LedgerResume ==
    /\ gen_pc = "returned"
    /\ exclude_set' = exclude_set \cup Range(generated)
    /\ first_generated' = generated
    /\ gen_pc' = "resumed"
    /\ UNCHANGED << toolVars, characters, length, limit, prefix, suffix, tld, pattern,
                    generated, gen_raised, pipeVars >>

NextGen == GenerateCall \/ LedgerResume

SpecGen == InitGen /\ [][NextGen]_vars

\* ------------------------------------------------------------ ledger
\* Bound on the number of runs of main.
MaxRuns == 2

\* A ledger row.  `available` is "True", "False", "None" (a rate-limited
\* check's value), "" (None as to_csv writes it) or "NaN" ("" as read_csv
\* reads it).
Row(d, dns, api, av, note) ==
    [domain |-> d, dns_checked |-> dns, api_verified |-> api,
     available |-> av, note |-> note]

\* df.to_csv(file_path, index=False): None and NaN are written as the empty
\* field.
CsvWrite(df) ==
    [i \in 1..Len(df) |->
        [df[i] EXCEPT !.available = IF @ \in {"None", "NaN"} THEN "" ELSE @]]

\* pd.read_csv(file_path): the DataFrame has the columns of the file's
\* header, and the empty field is read as NaN.
CsvRead(rows) ==
    [i \in 1..Len(rows) |->
        [c \in DOMAIN rows[i] |->
            IF c = "available" /\ rows[i][c] = "" THEN "NaN" ELSE rows[i][c]]]

\* The columns of a ledger row.
Columns == {"domain", "dns_checked", "api_verified", "available", "note"}

\* required_columns = ["domain", "dns_checked", "api_verified", "available"]
required_columns == {"domain", "dns_checked", "api_verified", "available"}

\* df[col] = False if col != "domain" else ""  (False as the value of
\* `available` is "False" here).
ColumnDefault(col) ==
    CASE col = "domain" -> ""
      [] col = "available" -> "False"
      [] OTHER -> FALSE

\* for col in required_columns: if col not in df.columns: df[col] = ...
BackFill(df) ==
    [i \in 1..Len(df) |->
        [c \in DOMAIN df[i] \cup required_columns |->
            IF c \in DOMAIN df[i] THEN df[i][c] ELSE ColumnDefault(c)]]

\* set(df['domain'].tolist())
DomainSet(df) == {df[i].domain : i \in 1..Len(df)}

\* df[(dns_checked == True) & (api_verified == False) & (available == True)]
\*   ['domain'].tolist()
PossiblyAvailable(df) ==
    LET sel == SelectSeq(df, LAMBDA r : r.dns_checked = TRUE
                                       /\ r.api_verified = FALSE
                                       /\ r.available = "True")
    IN  [i \in 1..Len(sel) |-> sel[i].domain]

\* ------------------------------------------------------------ main
\* (--characters, --limit) of a run: one new name of "ab" per run, every
\* name of "aa", or every name of "a".
PipeArgs == { << <<"a", "b">>, 1 >>, << <<"a", "a">>, 0 >>, << <<"a">>, 0 >> }

\* A provider entry of config.json; api_key is "" when the entry has none.
Provider(n, a, k) == [name |-> n, active |-> a, api_key |-> k]

Configs ==
    { <<>>,
      << Provider("porkbun", TRUE, "key") >>,
      << Provider("porkbun", TRUE, "key"), Provider("dynadot", TRUE, "key") >>,
      << Provider("porkbun", FALSE, "key"), Provider("dynadot", TRUE, "key") >> }

Init ==
    /\ characters = <<"a", "b">> /\ length = 1 /\ limit = 1
    /\ prefix = "" /\ suffix = "" /\ tld = ".com" /\ pattern = <<>>
    /\ exclude_set = {}
    /\ generated = <<>>
    /\ gen_raised = FALSE
    /\ first_generated = <<>>
    /\ gen_pc = "main"
    /\ config_file \in Configs
    /\ PipeIdle

\* python domain_finder.py ...: args = parser.parse_args()
StartRun ==
    /\ pc = "idle"
    /\ runs < MaxRuns
    /\ \E a \in PipeArgs : characters' = a[1] /\ limit' = a[2]
    /\ verify_api' \in BOOLEAN
    /\ only_verify_api' \in BOOLEAN
    /\ api_workers' \in {1, 2}
    \* arguments the run never reads are left at their defaults
    /\ only_verify_api' => (characters' = <<"a", "b">> /\ limit' = 1 /\ ~verify_api')
    /\ ~(only_verify_api' \/ verify_api') => api_workers' = 1
    /\ pc' = "load"
    /\ UNCHANGED << toolVars, length, prefix, suffix, tld, pattern, exclude_set, generated,
                    gen_raised, first_generated, gen_pc, fileVars, checked_df,
                    runs, run_log, main_raised, dnsVars, apiVars >>

\* load_checked_domains, the file read (or absent): (df, checked_set)
LoadOk ==
    /\ pc = "load"
    /\ checked_df' = IF check_file.exists THEN BackFill(CsvRead(check_file.rows))
                     ELSE <<>>
    /\ exclude_set' = DomainSet(checked_df')
    /\ pc' = IF only_verify_api THEN "only_verify" ELSE "generate"
    /\ UNCHANGED << toolVars, argVars, generated, gen_raised, first_generated, gen_pc,
                    fileVars, runs, run_log, main_raised, dnsVars, apiVars >>

\* load_checked_domains, pd.read_csv raising: the exception is logged
\* (logger.error, "加载CSV文件出错") and an empty DataFrame and an empty set
\* are returned.
LoadFail ==
    /\ pc = "load"
    /\ check_file.exists
    /\ checked_df' = <<>>
    /\ exclude_set' = {}
    /\ pc' = IF only_verify_api THEN "only_verify" ELSE "generate"
    /\ run_log' = run_log \cup {"load error"}
    /\ UNCHANGED << toolVars, argVars, generated, gen_raised, first_generated, gen_pc,
                    fileVars, runs, main_raised, dnsVars, apiVars >>

\* main: domains = generate_domains(..., exclude_set=checked_set); without a
\* name main returns, else run_dns_batch submits one dns_check per name.
Generate ==
    /\ pc = "generate"
    /\ generated' = generate_domains(characters, length, limit, prefix, suffix,
                                     tld, exclude_set, pattern)
    /\ IF generated' = <<>>
       THEN pc' = "exit" /\ UNCHANGED pending
       ELSE pc' = "dns" /\ pending' = 1..Len(generated')
    /\ new_rows' = <<>>
    /\ probes' = <<>>
    /\ UNCHANGED << toolVars, argVars, exclude_set, gen_raised, first_generated, gen_pc,
                    fileVars, checked_df, runs, run_log, main_raised, apiVars >>

\* What socket.gethostbyname(domain) does: it returns an address, or raises
\* socket.gaierror because the name does not exist (EAI_NONAME) or because
\* the resolver cannot be reached for now (EAI_AGAIN), or raises another
\* exception (a timeout).
Resolutions == {"address", "gaierror_noname", "gaierror_again", "timeout"}

\* dns_check, variant taking every resolution failure for an error.
dns_checkAllErrors(domain, resolution) ==
    IF resolution = "address"
    THEN [domain |-> domain, registered |-> TRUE, error |-> "None"]
    ELSE [domain |-> domain, registered |-> TRUE, error |-> "DNS query error"]

\* dns_check: (domain, is_registered, error), by its three exits.
dns_check(domain, resolution) ==
    CASE resolution = "address" ->
            [domain |-> domain, registered |-> TRUE, error |-> "None"]
      [] resolution \in {"gaierror_noname", "gaierror_again"} ->
            [domain |-> domain, registered |-> FALSE, error |-> "None"]
      [] OTHER ->
            [domain |-> domain, registered |-> TRUE, error |-> "DNS query error"]

\* The note of a DNS row.
DnsNote(o) ==
    IF o.error # "None" THEN o.error
    ELSE IF o.registered THEN "registered" ELSE "no DNS record, may be available"

\* The row of a result, variant that writes is_registered for available.
DnsRowAsRegistered(o) ==
    Row(o.domain, TRUE, FALSE, IF o.registered THEN "True" ELSE "False", DnsNote(o))

\* row = {"domain": domain, "dns_checked": True, "api_verified": False,
\*        "available": not is_registered, "note": ...}
DnsRow(o) ==
    Row(o.domain, TRUE, FALSE, IF o.registered THEN "False" ELSE "True", DnsNote(o))

\* A turn of the loop, variant that takes the results to arrive in the order
\* of submission and pairs each with the next domain of the list.
DnsResultInSubmissionOrder(i, resolution) ==
    /\ pc = "dns"
    /\ i \in pending
    /\ resolution \in Resolutions
    /\ pending' = pending \ {i}
    /\ LET o == dns_check(generated[Len(new_rows) + 1], resolution)
       IN  /\ error_file' =
                 IF o.error # "None"
                 THEN Append(error_file, <<o.domain, o.error>>)
                 ELSE error_file
           /\ new_rows' = Append(new_rows, DnsRow(o))
           /\ available_file' =
                 IF ~o.registered
                 THEN Append(available_file, <<o.domain, "pending API verification">>)
                 ELSE available_file
    /\ probes' = Append(probes, [i |-> i, resolution |-> resolution])
    /\ UNCHANGED << toolVars, genVars, check_file, config_file, checked_df, pc, runs, run_log, main_raised,
                    verify_api, only_verify_api, api_workers, apiVars >>

\* run_dns_batch, one turn of `for future in as_completed(...)`: the future
\* of domains[i] has completed, the resolution having gone as `resolution`.
DnsResult(i, resolution) ==
    /\ pc = "dns"
    /\ i \in pending
    /\ resolution \in Resolutions
    /\ pending' = pending \ {i}
    /\ LET o == dns_check(generated[i], resolution)
       IN  /\ error_file' =
                 IF o.error # "None"
                 THEN Append(error_file, <<o.domain, o.error>>)
                 ELSE error_file
           /\ new_rows' = Append(new_rows, DnsRow(o))
           /\ available_file' =
                 IF ~o.registered
                 THEN Append(available_file, <<o.domain, "pending API verification">>)
                 ELSE available_file
    /\ probes' = Append(probes, [i |-> i, resolution |-> resolution])
    /\ UNCHANGED << toolVars, genVars, check_file, config_file, checked_df, pc, runs, run_log, main_raised,
                    verify_api, only_verify_api, api_workers, apiVars >>

\* run_dns_batch's end: pd.concat([checked_df, pd.DataFrame(new_rows)]); the
\* futures are gone with the pool.
DnsConcat ==
    /\ pc = "dns"
    /\ pending = {}
    /\ checked_df' = checked_df \o new_rows
    /\ probes' = <<>>
    /\ pc' = "dns_save"
    /\ UNCHANGED << toolVars, genVars, fileVars, runs, run_log, main_raised, verify_api, only_verify_api,
                    api_workers, pending, new_rows, apiVars >>

\* main: save_checked_domains(updated_df, args.check_file), then the
\* verification stage if --verify-api.
SaveDns ==
    /\ pc = "dns_save"
    /\ check_file' = [exists |-> TRUE, rows |-> CsvWrite(checked_df)]
    /\ run_log' = run_log \cup {"DNS results saved"}
    /\ pc' = IF verify_api THEN "api_stage" ELSE "exit"
    /\ UNCHANGED << toolVars, genVars, available_file, config_file, error_file, checked_df,
                    runs, main_raised, verify_api, only_verify_api, api_workers,
                    dnsVars, apiVars >>

\* The same with df.to_csv raising: save_checked_domains logs the exception
\* (logger.error, "保存CSV文件出错") and returns; main logs "DNS检查完成，结果
\* 已保存到 ..." and goes on.
SaveDnsFail ==
    /\ pc = "dns_save"
    /\ run_log' = run_log \cup {"save error", "DNS results saved"}
    /\ pc' = IF verify_api THEN "api_stage" ELSE "exit"
    /\ UNCHANGED << toolVars, genVars, fileVars, checked_df, runs, main_raised, verify_api,
                    only_verify_api, api_workers, dnsVars, apiVars >>

\* ------------------------------------------------------------ providers
\* provider.lower(), for the names drawn.
LowerName(n) ==
    CASE n = "Porkbun" -> "porkbun"
      [] n = "Dynadot" -> "dynadot"
      [] OTHER -> n

\* APIConfig.from_file over the providers of config.json, in the file's
\* order: add_provider appends the lowered name to active_providers when the
\* entry says active (the default); nothing is ever taken off the list.
ActiveProviders ==
    LET act == SelectSeq(config_file, LAMBDA c : c.active)
    IN  [i \in 1..Len(act) |-> LowerName(act[i].name)]

\* The entries add_provider has stored under the key `provider`.
EntriesOf(provider) ==
    {i \in 1..Len(config_file) : LowerName(config_file[i].name) = provider}

\* get_provider_config(provider): self.providers[provider.lower()] = config
\* of the last add_provider under that key ({} without one: no caller asks).
ProviderConfig(provider) ==
    config_file[CHOOSE i \in EntriesOf(provider) :
                    \A j \in EntriesOf(provider) : j <= i]

\* porkbun_api.load_from_config: the client of config['providers']['porkbun'],
\* or None without an api_key; `active` false is logged as a warning only.
load_from_config ==
    LET own == {i \in 1..Len(config_file) : config_file[i].name = "porkbun"}
        last == CHOOSE i \in own : \A j \in own : j <= i
    IN  IF own = {} THEN "None"
        ELSE IF config_file[last].api_key = "" THEN "None"
        ELSE "PorkbunAPI"

\* What requests.post gives porkbun_check: status 200 with status SUCCESS
\* and avail "yes", or another avail, or no response object, or with another
\* status field; status 200 with a body that is not a JSON object; status
\* 400 with the rate-limit text; another HTTP status; or an exception of the
\* request (connection error).
PorkbunResponses ==
    { "200 SUCCESS avail yes", "200 SUCCESS avail no", "200 SUCCESS no avail",
      "200 not SUCCESS", "200 malformed body", "400 rate limit", "HTTP error",
      "request exception" }

\* porkbun_check, variant letting the request's exception through.
porkbun_checkRaising(response) ==
    CASE response = "200 SUCCESS avail yes" ->
            [available |-> "True", note |-> "Porkbun price"]
      [] response \in {"200 SUCCESS avail no", "200 SUCCESS no avail"} ->
            [available |-> "False", note |-> "Porkbun price"]
      [] response = "400 rate limit" ->
            [available |-> "None", note |-> "Porkbun rate limit"]
      [] response = "request exception" ->
            [available |-> "raised", note |-> "Porkbun error"]
      [] OTHER ->
            [available |-> "False", note |-> "Porkbun error"]

\* porkbun_check's exits, (is_available, note): the verdict with the price
\* note, the rate-limit rejection, and the error exits (the API error, the
\* HTTP error and `except Exception`, which also takes the body that does
\* not parse; their notes differ in the text only).
porkbun_check(response) ==
    CASE response = "200 SUCCESS avail yes" ->
            [available |-> "True", note |-> "Porkbun price"]
      [] response \in {"200 SUCCESS avail no", "200 SUCCESS no avail"} ->
            [available |-> "False", note |-> "Porkbun price"]
      [] response = "400 rate limit" ->
            [available |-> "None", note |-> "Porkbun rate limit"]
      [] OTHER ->
            [available |-> "False", note |-> "Porkbun error"]

PorkbunResults == {porkbun_check(response) : response \in PorkbunResponses}

\* What requests.get gives dynadot_check: status 200 with a first search
\* result that is available or not, with an error entry, with a JSON body
\* of another shape, or with a body that is not JSON; another HTTP status;
\* or an exception of the request (connection error, the 10 s timeout).
DynadotResponses ==
    { "200 available", "200 registered", "200 error", "200 unexpected body",
      "200 malformed body", "HTTP error", "request exception" }

\* dynadot_check's exits after the request: it has no rate-limit exit.
dynadot_check(response) ==
    CASE response = "200 available" ->
            [available |-> "True", note |-> "Dynadot price"]
      [] response = "200 registered" ->
            [available |-> "False", note |-> "Dynadot: registered"]
      [] OTHER ->
            [available |-> "False", note |-> "Dynadot error"]

DynadotResults == {dynadot_check(response) : response \in DynadotResponses}

\* config.get('api_key') of the provider's entry is set.
HasKey(provider) ==
    EntriesOf(provider) # {} /\ ProviderConfig(provider).api_key # ""

\* api_check(domain, api_config, provider) for a given provider.  Without a
\* key dynadot_check returns its "no API key" result before any request, and
\* Porkbun's server answers every request with an error.
ApiResults(provider) ==
    CASE provider = "porkbun" ->
            IF HasKey(provider) THEN PorkbunResults
            ELSE { [available |-> "False", note |-> "Porkbun error"] }
      [] provider = "dynadot" ->
            IF HasKey(provider) THEN DynadotResults
            ELSE { [available |-> "False", note |-> "Dynadot: no API key"] }
      [] OTHER -> { [available |-> "False", note |-> "unsupported provider"] }

\* A result that reports a failure of the check, not a verdict.
ErrorResult(r) ==
    r.note \in {"Porkbun error", "Dynadot error", "Dynadot: no API key"}

\* RATE_LIMIT_PORKBUN and RATE_LIMIT_DYNADOT, seconds.
RATE_LIMIT_PORKBUN == 11

RATE_LIMIT_DYNADOT == 2

\* The interval, variant that gives every provider Porkbun's.
RateLimitUniform(provider) == RATE_LIMIT_PORKBUN

\* rate_limit = RATE_LIMIT_PORKBUN; if provider.lower() == 'dynadot':
\* rate_limit = RATE_LIMIT_DYNADOT
RateLimit(provider) ==
    IF provider = "dynadot" THEN RATE_LIMIT_DYNADOT ELSE RATE_LIMIT_PORKBUN

\* The log of check calls with call c, of c.domain, added.
Logged(log, c) ==
    [d \in DOMAIN log \cup {c.domain} |->
        IF d = c.domain
        THEN Append(IF d \in DOMAIN log THEN log[d] ELSE <<>>, c)
        ELSE log[d]]

\* is_available is None and "速率限制" in note
RateLimited(r) == r.available = "None" /\ r.note = "Porkbun rate limit"

\* if is_available:
Truthy(r) == r.available = "True"

\* The update, variant whose mask selects every row.
UpdateRowsUnmasked(df, d, av, note) ==
    [i \in 1..Len(df) |->
        [df[i] EXCEPT !.api_verified = TRUE, !.available = av, !.note = note]]

\* checked_df.loc[checked_df['domain'] == domain, ...] = ...
UpdateRows(df, d, av, note) ==
    [i \in 1..Len(df) |->
        IF df[i].domain = d
        THEN [df[i] EXCEPT !.api_verified = TRUE, !.available = av, !.note = note]
        ELSE df[i]]

\* ------------------------------------------------------------ verification
\* run_only_api_verification: the rows to verify, or return without any.
OnlyVerify ==
    /\ pc = "only_verify"
    /\ to_verify' = PossiblyAvailable(checked_df)
    /\ pc' = IF to_verify' = <<>> THEN "exit" ELSE "api_stage"
    /\ UNCHANGED << toolVars, genVars, fileVars, checked_df, runs, run_log, main_raised, verify_api,
                    only_verify_api, api_workers, dnsVars, seq_i, seq_clock, seq_starts, lanes,
                    results, calls >>

\* The first occurrences of s's elements, in order (a dict's keys).
RECURSIVE Dedup(_)
Dedup(s) ==
    IF s = <<>> THEN <<>>
    ELSE LET rest == Dedup(SubSeq(s, 1, Len(s) - 1))
         IN  IF s[Len(s)] \in Range(rest) THEN rest ELSE Append(rest, s[Len(s)])

\* The tasks, variant with one task per domain instead of one per provider.
TasksPerDomain(domains, providers) ==
    LET n == Len(providers)
        keys == Dedup(domains)
    IN  [t \in 1..Len(keys) |->
            [provider |-> providers[((t - 1) % n) + 1],
             domains |-> <<keys[t]>>,
             i |-> 1,
             results |-> <<>>,
             collected |-> FALSE,
             busy |-> FALSE,
             clock |-> 0,
             latency |-> 0,
             starts |-> <<>>]]

\* run_parallel_api_verification: domain_to_provider, provider_to_domains
\* and tasks.  The i-th domain (from 0) goes to providers[i % len(providers)];
\* a domain listed twice keeps its first place and its last provider.
Tasks(domains, providers) ==
    LET n == Len(providers)
        keys == Dedup(domains)
        last(d) == CHOOSE i \in 1..Len(domains) :
                      domains[i] = d /\ \A j \in (i + 1)..Len(domains) : domains[j] # d
        domain_to_provider(d) == providers[((last(d) - 1) % n) + 1]
        order == Dedup([k \in 1..Len(keys) |-> domain_to_provider(keys[k])])
    IN  [t \in 1..Len(order) |->
            [provider |-> order[t],
             domains |-> SelectSeq(keys, LAMBDA d : domain_to_provider(d) = order[t]),
             i |-> 1,
             results |-> <<>>,
             collected |-> FALSE,
             busy |-> FALSE,
             clock |-> 0,
             latency |-> 0,
             starts |-> <<>>]]

\* run_api_verification_stage up to the strategy's start: the configuration
\* is loaded, the rows are selected, run_api_verification picks the strategy.
\* Without an active provider the stage logs an error (logger.error, "无法从
\* ... 加载有效的API配置") and returns checked_df to its caller, which goes on
\* to the statistics.
ApiStage ==
    /\ pc = "api_stage"
    /\ LET active == ActiveProviders
           domains == IF only_verify_api THEN to_verify
                      ELSE PossiblyAvailable(checked_df)
           use_multi_api == api_workers > 1 /\ Len(active) > 1
       IN  IF active = <<>> \/ domains = <<>>
           THEN /\ pc' = "exit"
                /\ run_log' = IF active = <<>>
                              THEN run_log \cup {"configuration error"}
                              ELSE run_log
                /\ UNCHANGED << to_verify, seq_i, lanes >>
           ELSE IF ~use_multi_api \/ api_workers <= 1
                THEN /\ pc' = "seq"
                     /\ to_verify' = domains
                     /\ seq_i' = 1
                     /\ UNCHANGED << lanes, run_log >>
                ELSE /\ pc' = "par"
                     /\ to_verify' = domains
                     /\ lanes' = Tasks(domains, active)
                     /\ UNCHANGED << seq_i, run_log >>
    /\ seq_clock' = 0
    /\ seq_starts' = <<>>
    /\ results' = <<>>
    /\ calls' = <<>>
    /\ UNCHANGED << toolVars, genVars, fileVars, checked_df, runs, main_raised, verify_api,
                    only_verify_api, api_workers, dnsVars >>

\* run_sequential_api_verification, a turn of its loop begins: the check of
\* domains[seq_i] is issued, and the loop's thread waits for it.
SeqCall ==
    /\ pc = "seq"
    /\ pc' = "seq_call"
    /\ UNCHANGED << toolVars, genVars, fileVars, checked_df, runs, run_log, main_raised, verify_api,
                    only_verify_api, api_workers, dnsVars, apiVars >>

\* The pause that ends a turn of the sequential loop, variant that pauses
\* after a verdict only.
SeqSleepAfterVerdict(provider, r) ==
    IF ErrorResult(r) THEN 0 ELSE RateLimit(provider)

\* time.sleep(rate_limit) at the turn's end: the interval of the provider
\* drawn first, whatever the result and whoever answered the second check.
SeqSleep(provider, r) == RateLimit(provider)

\* run_sequential_api_verification, the rest of the turn: the check returns
\* (by a provider drawn at random); after a rate-limit rejection the loop
\* sleeps the provider's interval and checks again, by a provider drawn
\* again; the rows of the domain are updated and the loop sleeps.  The clock
\* counts the sleeps: the time the checks themselves take only adds to it.
SeqIteration(p1, r1, p2, r2) ==
    /\ pc = "seq_call"
    /\ p1 \in Range(ActiveProviders) /\ r1 \in ApiResults(p1)
    /\ p2 \in Range(ActiveProviders) /\ r2 \in ApiResults(p2)
    /\ ~RateLimited(r1) => (p2 = p1 /\ r2 = r1)
    /\ LET domain == to_verify[seq_i]
           final == IF RateLimited(r1) THEN r2 ELSE r1
           second == IF RateLimited(r1)
                     THEN << [domain |-> domain, provider |-> p2,
                              available |-> r2.available] >>
                     ELSE <<>>
       IN  /\ calls' =
                 LET first == Logged(calls, [domain |-> domain, provider |-> p1,
                                             available |-> r1.available])
                 IN  IF RateLimited(r1) THEN Logged(first, second[1]) ELSE first
           /\ checked_df' = UpdateRows(checked_df, domain,
                                       IF Truthy(final) THEN "True" ELSE "False",
                                       final.note)
           /\ available_file' =
                 IF Truthy(final)
                 THEN Append(available_file,
                             <<domain, "API confirmed - " \o final.note>>)
                 ELSE available_file
           /\ seq_starts' =
                 LET first == Append(seq_starts, [provider |-> p1, at |-> seq_clock])
                 IN  IF RateLimited(r1)
                     THEN Append(first, [provider |-> p2,
                                         at |-> seq_clock + RateLimit(p1)])
                     ELSE first
           /\ seq_clock' = seq_clock
                           + (IF RateLimited(r1) THEN RateLimit(p1) ELSE 0)
                           + SeqSleep(p1, final)
    /\ seq_i' = seq_i + 1
    /\ pc' = IF seq_i = Len(to_verify) THEN "api_save" ELSE "seq"
    /\ UNCHANGED << toolVars, genVars, check_file, config_file, error_file, runs, run_log,
                    main_raised, verify_api, only_verify_api, api_workers,
                    dnsVars, to_verify, lanes, results >>

\* ThreadPoolExecutor(max_workers=min(max_workers, len(tasks))): the t-th
\* task runs once fewer than that many earlier tasks are unfinished.
LaneDone(t) == lanes[t].i > Len(lanes[t].domains)

LaneRunning(t) ==
    /\ ~LaneDone(t)
    /\ Cardinality({u \in 1..(t - 1) : ~LaneDone(u)}) < Min(api_workers, Len(lanes))

\* The time a check call takes, in seconds: none to speak of, or some.
CallDurations == {0, 1}

\* The pause after a check, variant that pauses after a verdict only.
LaneSleepAfterVerdict(provider, r) ==
    IF ErrorResult(r) \/ RateLimited(r) THEN 0 ELSE RateLimit(provider)

\* time.sleep(rate_limit), after every check whatever its result.
LaneSleep(provider, r) == RateLimit(provider)

\* process_api_batch, a turn of its loop in the lane of task t begins: the
\* check of the lane's next domain is issued at the lane's clock.
LaneCall(t) ==
    /\ pc \in {"par", "par_drain"}
    /\ t \in 1..Len(lanes)
    /\ LaneRunning(t)
    /\ ~lanes[t].busy
    /\ lanes' = [lanes EXCEPT ![t].busy = TRUE,
                              ![t].starts = Append(@, lanes[t].clock)]
    /\ UNCHANGED << toolVars, genVars, fileVars, checked_df, pc, runs, run_log, main_raised, verify_api,
                    only_verify_api, api_workers, dnsVars, to_verify, seq_i, seq_clock, seq_starts,
                    results, calls >>

\* The rest of the turn, variant in which the lane's thread writes its result
\* into the DataFrame itself.
LaneStepWritingLedger(t, r, dur) ==
    /\ pc \in {"par", "par_drain"}
    /\ t \in 1..Len(lanes)
    /\ LaneRunning(t)
    /\ lanes[t].busy
    /\ r \in ApiResults(lanes[t].provider)
    /\ dur \in CallDurations
    /\ LET domain == lanes[t].domains[lanes[t].i]
       IN  /\ lanes' = [lanes EXCEPT ![t].i = @ + 1,
                                     ![t].busy = FALSE,
                                     ![t].clock =
                                         @ + dur + LaneSleep(lanes[t].provider, r),
                                     ![t].latency = @ + dur,
                                     ![t].results =
                                         Append(@, [domain |-> domain,
                                                    available |-> r.available,
                                                    note |-> r.note])]
           /\ calls' = Logged(calls, [domain |-> domain,
                                      provider |-> lanes[t].provider,
                                      available |-> r.available])
           /\ available_file' =
                 IF Truthy(r)
                 THEN Append(available_file, <<domain, "API confirmed - " \o r.note>>)
                 ELSE available_file
           /\ checked_df' = UpdateRows(checked_df, domain, r.available, r.note)
    /\ UNCHANGED << toolVars, genVars, check_file, config_file, error_file, pc, runs, run_log, main_raised,
                    verify_api, only_verify_api, api_workers, dnsVars,
                    to_verify, seq_i, seq_clock, seq_starts, results >>

\* process_api_batch, the rest of the turn: the check returns r after dur
\* seconds, the result is recorded as it is, and the lane sleeps.
LaneStep(t, r, dur) ==
    /\ pc \in {"par", "par_drain"}
    /\ t \in 1..Len(lanes)
    /\ LaneRunning(t)
    /\ lanes[t].busy
    /\ r \in ApiResults(lanes[t].provider)
    /\ dur \in CallDurations
    /\ LET domain == lanes[t].domains[lanes[t].i]
       IN  /\ lanes' = [lanes EXCEPT ![t].i = @ + 1,
                                     ![t].busy = FALSE,
                                     ![t].clock =
                                         @ + dur + LaneSleep(lanes[t].provider, r),
                                     ![t].latency = @ + dur,
                                     ![t].results =
                                         Append(@, [domain |-> domain,
                                                    available |-> r.available,
                                                    note |-> r.note])]
           /\ calls' = Logged(calls, [domain |-> domain,
                                      provider |-> lanes[t].provider,
                                      available |-> r.available])
           /\ available_file' =
                 IF Truthy(r)
                 THEN Append(available_file, <<domain, "API confirmed - " \o r.note>>)
                 ELSE available_file
    /\ UNCHANGED << toolVars, genVars, check_file, config_file, error_file, checked_df, pc, runs, run_log, main_raised,
                    verify_api, only_verify_api, api_workers, dnsVars,
                    to_verify, seq_i, seq_clock, seq_starts, results >>

\* run_parallel_api_verification, one turn of `for future in
\* as_completed(futures)`: results.extend(batch_results) of a finished lane.
ParCollect(t) ==
    /\ pc = "par"
    /\ t \in 1..Len(lanes)
    /\ LaneDone(t)
    /\ ~lanes[t].collected
    /\ results' = results \o lanes[t].results
    /\ lanes' = [lanes EXCEPT ![t].collected = TRUE]
    /\ UNCHANGED << toolVars, genVars, fileVars, checked_df, pc, runs, run_log, main_raised, verify_api,
                    only_verify_api, api_workers, dnsVars, to_verify, seq_i, seq_clock, seq_starts,
                    calls >>

RECURSIVE ApplyResults(_, _)
\* for domain, is_available, note in results: if mask.any(): ... = True,
\* is_available, note.  (No row of another domain is touched, so the test
\* needs no case of its own.)
ApplyResults(df, rs) ==
    IF rs = <<>> THEN df
    ELSE ApplyResults(UpdateRows(df, Head(rs).domain, Head(rs).available,
                                 Head(rs).note),
                      Tail(rs))

\* run_parallel_api_verification's end: the DataFrame is updated from the
\* collected results.
ParUpdate ==
    /\ pc = "par"
    /\ \A t \in 1..Len(lanes) : lanes[t].collected
    /\ checked_df' = ApplyResults(checked_df, results)
    /\ pc' = "api_save"
    /\ UNCHANGED << toolVars, genVars, fileVars, runs, run_log, main_raised, verify_api, only_verify_api,
                    api_workers, dnsVars, apiVars >>

\* run_api_verification_stage's end: save_checked_domains(final_df, ...)
SaveApi ==
    /\ pc = "api_save"
    /\ check_file' = [exists |-> TRUE, rows |-> CsvWrite(checked_df)]
    /\ run_log' = run_log \cup {"API results saved"}
    /\ pc' = "exit"
    /\ UNCHANGED << toolVars, genVars, available_file, config_file, error_file, checked_df,
                    runs, main_raised, verify_api, only_verify_api, api_workers,
                    dnsVars, apiVars >>

\* The same with df.to_csv raising: the exception is logged, and the stage
\* logs "API验证完成，结果已保存到 ...".
SaveApiFail ==
    /\ pc = "api_save"
    /\ run_log' = run_log \cup {"save error", "API results saved"}
    /\ pc' = "exit"
    /\ UNCHANGED << toolVars, genVars, fileVars, checked_df, runs, main_raised, verify_api,
                    only_verify_api, api_workers, dnsVars, apiVars >>

\* Ctrl-C during the DNS or the verification stage: KeyboardInterrupt is
\* raised in main's thread.  No `except Exception` of the loops catches it;
\* it leaves run_dns_batch or run_api_verification through the `with` of the
\* pool, whose shutdown(wait=True) lets every submitted task run to its end,
\* and then main, which saves nothing on its way.  In the DNS stage the
\* futures left run and their results are dropped with new_rows; in the
\* sequential loop the check in flight is given up; in the parallel strategy
\* the lanes go on through their queues before the exception gets further.
\* __main__ then logs "用户中断检查，已保存当前进度".
Interrupt ==
    /\ pc \in {"dns", "seq", "seq_call", "par"}
    /\ main_raised' = "KeyboardInterrupt"
    /\ IF pc = "par"
       THEN /\ pc' = "par_drain"
            /\ UNCHANGED << run_log, pending >>
       ELSE /\ pc' = "exit"
            /\ run_log' = run_log \cup {"progress saved"}
            /\ pending' = {}
    /\ UNCHANGED << toolVars, genVars, fileVars, checked_df, runs, verify_api,
                    only_verify_api, api_workers, new_rows, probes, apiVars >>

\* The pool of the parallel strategy has shut down after the interrupt: the
\* exception leaves main, the results of the lanes are dropped.
PoolDrained ==
    /\ pc = "par_drain"
    /\ \A t \in 1..Len(lanes) : LaneDone(t)
    /\ pc' = "exit"
    /\ run_log' = run_log \cup {"progress saved"}
    /\ UNCHANGED << toolVars, genVars, fileVars, checked_df, runs, main_raised, verify_api,
                    only_verify_api, api_workers, dnsVars, apiVars >>

\* The process ends: only the files remain.
Exit ==
    /\ pc = "exit"
    /\ pc' = "idle"
    /\ runs' = runs + 1
    /\ characters' = <<"a", "b">> /\ limit' = 1
    /\ verify_api' = FALSE /\ only_verify_api' = FALSE /\ api_workers' = 1
    /\ exclude_set' = {} /\ generated' = <<>> /\ checked_df' = <<>>
    /\ pending' = {} /\ new_rows' = <<>> /\ probes' = <<>>
    /\ to_verify' = <<>> /\ seq_i' = 0 /\ lanes' = <<>> /\ results' = <<>>
    /\ seq_clock' = 0 /\ seq_starts' = <<>>
    /\ calls' = <<>>
    /\ run_log' = {} /\ main_raised' = "None"
    /\ UNCHANGED << toolVars, length, prefix, suffix, tld, pattern, gen_raised,
                    first_generated, gen_pc, fileVars >>

Next ==
    \/ StartRun
    \/ LoadOk
    \/ LoadFail
    \/ Generate
    \/ \E i \in pending, resolution \in Resolutions : DnsResult(i, resolution)
    \/ DnsConcat
    \/ SaveDns
    \/ SaveDnsFail
    \/ OnlyVerify
    \/ ApiStage
    \/ SeqCall
    \/ \E p1, p2 \in {"porkbun", "dynadot"} :
          \E r1 \in ApiResults(p1), r2 \in ApiResults(p2) : SeqIteration(p1, r1, p2, r2)
    \/ \E t \in 1..Len(lanes) : LaneCall(t)
    \/ \E t \in 1..Len(lanes) :
          \E r \in ApiResults(lanes[t].provider), dur \in CallDurations :
              LaneStep(t, r, dur)
    \/ \E t \in 1..Len(lanes) : ParCollect(t)
    \/ ParUpdate
    \/ SaveApi
    \/ SaveApiFail
    \/ Interrupt
    \/ PoolDrained
    \/ Exit

Spec == Init /\ [][Next]_vars

\* ------------------------------------------------------------ verifier alone
\* Most rows awaiting verification in the ledgers drawn for a stage.
MaxDomains == 3
\* Largest --api-workers drawn.
MaxWorkers == 3

\* max_errors of the clients' batch_check, the consecutive errors after which
\* a queue is given up.
max_errors == 5

\* The ledger a DNS stage leaves when every name of `names` had no record.
FreeLedger(names) ==
    [i \in 1..Len(names) |->
        Row(names[i], TRUE, FALSE, "True", "no DNS record, may be available")]

\* The ledgers drawn, with the configurations they are verified under: up to
\* MaxDomains names of --characters ab --length 2, the names of --characters
\* aabb --length 1, and, where no provider has a key, enough names of
\* --characters ab --length 4 for a queue longer than max_errors; and one
\* name under a config.json that lists Porkbun twice, active as "Porkbun" and
\* inactive as "porkbun".
ApiInputs ==
    LET gen(chars, len, lim) ==
            generate_domains(chars, len, lim, "", "", ".com", {}, <<>>)
        keyed == Configs \ {<<>>}
        keyless == { << Provider("porkbun", TRUE, ""), Provider("dynadot", TRUE, "") >> }
        twice == { << Provider("Porkbun", TRUE, "key"), Provider("porkbun", FALSE, "key") >> }
    IN  ({gen(<<"a", "b">>, 2, k) : k \in 1..MaxDomains} \X keyed)
        \cup ({gen(<<"a", "b">>, 2, 1)} \X twice)
        \cup ({gen(<<"a", "a", "b", "b">>, 1, 0)} \X keyed)
        \cup ({gen(<<"a", "b">>, 4, 2 * max_errors + 1)} \X keyless)

\* python domain_finder.py --only-verify-api, at the call of
\* run_api_verification_stage: the ledger is loaded and its rows selected.
InitApi ==
    /\ characters = <<"a", "b">> /\ length = 1 /\ limit = 1
    /\ prefix = "" /\ suffix = "" /\ tld = ".com" /\ pattern = <<>>
    /\ generated = <<>>
    /\ gen_raised = FALSE
    /\ first_generated = <<>>
    /\ gen_pc = "main"
    /\ \E inp \in ApiInputs :
          /\ check_file = [exists |-> TRUE, rows |-> CsvWrite(FreeLedger(inp[1]))]
          /\ available_file =
                [i \in 1..Len(inp[1]) |-> <<inp[1][i], "pending API verification">>]
          /\ config_file = inp[2]
    /\ error_file = <<>>
    /\ checked_df = CsvRead(check_file.rows)
    /\ exclude_set = DomainSet(checked_df)
    /\ to_verify = PossiblyAvailable(checked_df)
    /\ pc = "api_stage"
    /\ runs = 0
    /\ run_log = {}
    /\ main_raised = "None"
    /\ verify_api = FALSE
    /\ only_verify_api = TRUE
    /\ api_workers \in 1..MaxWorkers
    /\ pending = {}
    /\ new_rows = <<>>
    /\ probes = <<>>
    /\ seq_i = 0
    /\ seq_clock = 0
    /\ seq_starts = <<>>
    /\ lanes = <<>>
    /\ results = <<>>
    /\ calls = <<>>
    /\ ToolsIdle

NextApi ==
    \/ ApiStage
    \/ SeqCall
    \/ \E p1, p2 \in {"porkbun", "dynadot"} :
          \E r1 \in ApiResults(p1), r2 \in ApiResults(p2) : SeqIteration(p1, r1, p2, r2)
    \/ \E t \in 1..Len(lanes) : LaneCall(t)
    \/ \E t \in 1..Len(lanes) :
          \E r \in ApiResults(lanes[t].provider), dur \in CallDurations :
              LaneStep(t, r, dur)
    \/ \E t \in 1..Len(lanes) : ParCollect(t)
    \/ ParUpdate
    \/ SaveApi

SpecApi == InitApi /\ [][NextApi]_vars

\* ------------------------------------------------------------ DNS stage alone
\* Most candidates drawn for a DNS stage.
MaxCandidates == 3

\* The runs drawn, (characters, length, limit, names already in the ledger):
\* up to MaxCandidates names of --characters ab --length 2, on an empty
\* ledger or on one that holds the first name; the names of --characters aa.
DnsInputs ==
    LET first == generate_domains(<<"a", "b">>, 2, 1, "", "", ".com", {}, <<>>)
    IN  ({<<"a", "b">>} \X {2} \X (1..MaxCandidates) \X {<<>>, first})
        \cup {<< <<"a", "a">>, 1, 0, <<>> >>}

\* main at the call of run_dns_batch: the ledger is loaded, the candidates
\* are generated, their probes are submitted.
InitDns ==
    /\ prefix = "" /\ suffix = "" /\ tld = ".com" /\ pattern = <<>>
    /\ \E inp \in DnsInputs :
          /\ characters = inp[1] /\ length = inp[2] /\ limit = inp[3]
          /\ check_file = IF inp[4] = <<>> THEN [exists |-> FALSE, rows |-> <<>>]
                          ELSE [exists |-> TRUE, rows |-> CsvWrite(FreeLedger(inp[4]))]
          /\ available_file =
                [i \in 1..Len(inp[4]) |-> <<inp[4][i], "pending API verification">>]
    /\ checked_df = CsvRead(check_file.rows)
    /\ exclude_set = DomainSet(checked_df)
    /\ generated = generate_domains(characters, length, limit, prefix, suffix,
                                    tld, exclude_set, pattern)
    /\ gen_raised = FALSE
    /\ first_generated = <<>>
    /\ gen_pc = "main"
    /\ config_file = <<>>
    /\ error_file = <<>>
    /\ pc = "dns"
    /\ runs = 0
    /\ run_log = {}
    /\ main_raised = "None"
    /\ verify_api = FALSE
    /\ only_verify_api = FALSE
    /\ api_workers = 1
    /\ pending = 1..Len(generated)
    /\ new_rows = <<>>
    /\ probes = <<>>
    /\ to_verify = <<>>
    /\ seq_i = 0
    /\ seq_clock = 0
    /\ seq_starts = <<>>
    /\ lanes = <<>>
    /\ results = <<>>
    /\ calls = <<>>
    /\ ToolsIdle

NextDns ==
    \/ \E i \in pending, resolution \in Resolutions : DnsResult(i, resolution)
    \/ DnsConcat
    \/ SaveDns

SpecDns == InitDns /\ [][NextDns]_vars

\* ------------------------------------------------------------ load alone
\* Most rows of the ledger files drawn for a load.
MaxRows == 2

\* The ledger files drawn: the rows a DNS stage leaves for up to MaxRows
\* names, under every header that keeps at least one of the columns (a file
\* written by hand or by another version of the program).
LoadInputs ==
    LET names(k) == generate_domains(<<"a", "b">>, 2, k, "", "", ".com", {}, <<>>)
        rows(k) == CsvWrite(FreeLedger(names(k)))
    IN  { [i \in 1..k |-> [c \in H |-> rows(k)[i][c]]] :
              k \in 1..MaxRows, H \in (SUBSET Columns) \ {{}} }

\* main at the call of load_checked_domains, the ledger file existing.
InitLoad ==
    /\ characters = <<"a", "b">> /\ length = 2 /\ limit = 1
    /\ prefix = "" /\ suffix = "" /\ tld = ".com" /\ pattern = <<>>
    /\ exclude_set = {}
    /\ generated = <<>>
    /\ gen_raised = FALSE
    /\ first_generated = <<>>
    /\ gen_pc = "main"
    /\ check_file \in {[exists |-> TRUE, rows |-> r] : r \in LoadInputs}
    /\ available_file = <<>>
    /\ config_file = <<>>
    /\ error_file = <<>>
    /\ checked_df = <<>>
    /\ pc = "load"
    /\ runs = 0
    /\ run_log = {}
    /\ main_raised = "None"
    /\ verify_api = FALSE
    /\ only_verify_api = FALSE
    /\ api_workers = 1
    /\ pending = {}
    /\ new_rows = <<>>
    /\ probes = <<>>
    /\ to_verify = <<>>
    /\ seq_i = 0
    /\ seq_clock = 0
    /\ seq_starts = <<>>
    /\ lanes = <<>>
    /\ results = <<>>
    /\ calls = <<>>
    /\ ToolsIdle

NextLoad == LoadOk \/ LoadFail

SpecLoad == InitLoad /\ [][NextLoad]_vars

\* ------------------------------------------------------------ generator claims
Returned == gen_pc \in {"returned", "returned_again"}

\* The character set the call enumerates, and the number of its combinations.
Cs == EffectiveCharacters(characters, pattern)

Total == Pow(Len(Cs), length)

\* The n-th combination (n from 0) of the product order, read off n's digits
\* in base Len(Cs): the leftmost position is the most significant digit.
ComboAt(n) ==
    [i \in 1..length |-> Cs[((n \div Pow(Len(Cs), length - i)) % Len(Cs)) + 1]]

NameAt(n) == FullDomain(prefix, ComboAt(n), suffix, tld)

\* The positions of the product order whose name is not excluded, ascending.
Accepted ==
    SelectSeq([k \in 1..Total |-> k - 1], LAMBDA n : NameAt(n) \notin exclude_set)

\* C1 (as claimed): for every character set, length > 0 and limit >= 0 the
\* returned list has no duplicate entry and no entry of the exclude set.
C1_NoDuplicateNoExcluded ==
    (Returned /\ length > 0 /\ limit >= 0) =>
        /\ \A i, j \in 1..Len(generated) : i # j => generated[i] # generated[j]
        /\ \A i \in 1..Len(generated) : generated[i] \notin exclude_set

\* C2: the names come in lexicographic product order (leftmost character
\* slowest), each prefix + body + suffix + tld: the k-th returned name is the
\* name of the k-th non-excluded position of the product order; and "ab",
\* length 2, limit 3, ".com" gives aa.com, ab.com, ba.com.
C2_ProductOrder ==
    (Returned /\ length > 0) =>
        /\ Len(generated) <= Len(Accepted)
        /\ \A k \in 1..Len(generated) : generated[k] = NameAt(Accepted[k])
        /\ ( /\ Cs = <<"a", "b">> /\ length = 2 /\ limit = 3
             /\ prefix = "" /\ suffix = "" /\ tld = ".com" /\ exclude_set = {} )
           => generated = <<"aa.com", "ab.com", "ba.com">>

\* C2's case: the example call has returned its three names.
C2_Witness ==
    /\ gen_pc = "returned" /\ characters = <<"a", "b">> /\ pattern = <<>>
    /\ length = 2 /\ limit = 3 /\ tld = ".com" /\ prefix = "" /\ suffix = ""
    /\ exclude_set = {}
    /\ generated = <<"aa.com", "ab.com", "ba.com">>

\* C3: with limit > 0 the list has min(limit, number of non-excluded
\* combinations) entries, with limit = 0 it is every non-excluded combination,
\* and every body has `length` characters of the character set.
C3_LimitAndShape ==
    (Returned /\ length > 0 /\ limit >= 0) =>
        /\ limit > 0 => Len(generated) = Min(limit, Len(Accepted))
        /\ limit = 0 => /\ Len(generated) = Len(Accepted)
                        /\ Range(generated) = {NameAt(n) : n \in Range(Accepted)}
        /\ \A k \in 1..Len(generated) :
              \E combo \in [1..length -> Range(Cs)] :
                  generated[k] = FullDomain(prefix, combo, suffix, tld)

\* C3's case: a call cut off by its limit although an excluded name was met
\* before the last accepted one.
C3_Witness ==
    /\ gen_pc = "returned" /\ limit = 2 /\ length = 2
    /\ Len(generated) = 2 /\ Len(Accepted) > 2
    /\ \E n \in 0..Accepted[2] : NameAt(n) \in exclude_set

\* C4 (as claimed): the second run, over the ledger the first run filled,
\* returns nothing.
C4_SecondRunEmpty == gen_pc = "returned_again" => generated = <<>>

\* C4 (amended): the second run returns no name of the first run (nor any
\* other name of the ledger), and it returns nothing when the first run was
\* not cut off by the limit.
C4_ResumeSkipsSeen ==
    gen_pc = "returned_again" =>
        /\ Range(generated) \cap Range(first_generated) = {}
        /\ Range(generated) \cap exclude_set = {}
        /\ (limit <= 0 \/ Len(first_generated) < limit) => generated = <<>>

\* C4's case: a first run cut off by its limit, and a second run that goes on
\* with the names after it.
C4_Witness ==
    /\ gen_pc = "returned_again" /\ limit > 0
    /\ Len(first_generated) = limit /\ generated # <<>>

\* C5 (as claimed): a call with length <= 0 ends in an error the caller can
\* tell from a call that found no new name.
C5_LengthErrorReported ==
    (Returned /\ length <= 0) => (gen_raised \/ generated # <<>>)

\* ------------------------------------------------------------ ledger claims
\* The rows of the ledger file.
FileRows == check_file.rows

\* The check calls the running stage has issued for domain d.
CallsFor(d) == IF d \in DOMAIN calls THEN calls[d] ELSE <<>>

\* The stage's results have been folded into the DataFrame.
StageFolded == pc \in {"api_save", "exit"} /\ DOMAIN calls # {}

\* C6 (as claimed): whatever runs were made, no domain has two rows, in the
\* ledger file or in the DataFrame.
C6_OneRowPerDomain ==
    /\ \A i, j \in 1..Len(FileRows) :
          i # j => FileRows[i].domain # FileRows[j].domain
    /\ \A i, j \in 1..Len(checked_df) :
          i # j => checked_df[i].domain # checked_df[j].domain

\* C7 (as claimed): a domain whose ledger record has api_verified = True
\* never has a record with api_verified = False afterwards.
C7_ApiVerifiedNeverReset ==
    [][\A i \in 1..Len(FileRows) :
          FileRows[i].api_verified =>
              \A j \in 1..Len(check_file'.rows) :
                  check_file'.rows[j].domain = FileRows[i].domain
                      => check_file'.rows[j].api_verified]_vars

\* A record in a terminal state: registered or in error at the DNS stage, or
\* settled by the API.
TerminalRow(r) == r.api_verified \/ (r.dns_checked /\ r.available = "False")

TerminalInFile(d) ==
    \E i \in 1..Len(FileRows) : FileRows[i].domain = d /\ TerminalRow(FileRows[i])

\* C8 (as claimed): a record in a terminal state keeps every field, and no
\* DNS probe and no check call is issued for its domain.
C8_TerminalStatesFinal ==
    [][/\ \A i \in 1..Len(FileRows) :
             TerminalRow(FileRows[i]) =>
                 /\ i <= Len(check_file'.rows)
                 /\ check_file'.rows[i] = FileRows[i]
       /\ (pc = "generate" /\ pc' = "dns") =>
             \A k \in 1..Len(generated') : ~TerminalInFile(generated'[k])
       /\ \A d \in DOMAIN calls' :
             (d \notin DOMAIN calls \/ Len(calls'[d]) > Len(calls[d]))
                 => ~TerminalInFile(d)]_vars

\* C9 (as claimed): a domain whose check calls were all rejected by the rate
\* limit is not recorded as api_verified with a True or False verdict.
C9_RateLimitIsNoVerdict ==
    StageFolded =>
        \A d \in Range(to_verify) :
            (CallsFor(d) # <<>> /\ \A k \in 1..Len(CallsFor(d)) :
                                      CallsFor(d)[k].available = "None")
            => \A i \in 1..Len(checked_df) :
                  checked_df[i].domain = d =>
                      ~(checked_df[i].api_verified
                        /\ checked_df[i].available \in {"True", "False"})

\* C10 (as claimed, for a stage whose list names no domain twice): in every
\* strategy a rate-limited check is retried once, and no domain gets more
\* than two check calls in a stage.
C10_RetryOnceEverywhere ==
    (\A i, j \in 1..Len(to_verify) : i # j => to_verify[i] # to_verify[j]) =>
        \A d \in Range(to_verify) :
            /\ Len(CallsFor(d)) <= 2
            /\ (StageFolded /\ CallsFor(d) # <<>>
                            /\ CallsFor(d)[1].available = "None")
                   => Len(CallsFor(d)) = 2

\* ------------------------------------------------------------ verifier claims
\* The lanes, by position.
Lanes == 1..Len(lanes)

\* C11: in a lane the checks are issued in the order of the lane's queue,
\* two consecutive checks start at least the provider's interval apart, and
\* so the N-th starts at least (N-1) intervals after the first, whatever the
\* results were.
C11_LanePacing ==
    \A t \in Lanes :
        LET l == lanes[t]
            n == Len(l.starts)
        IN  /\ n = (l.i - 1) + (IF l.busy THEN 1 ELSE 0)
            /\ \A k \in 1..Len(l.results) : l.results[k].domain = l.domains[k]
            /\ \A k \in 1..(n - 1) :
                  l.starts[k + 1] - l.starts[k] >= RateLimit(l.provider)
            /\ n >= 1 =>
                  l.starts[n] - l.starts[1] >= (n - 1) * RateLimit(l.provider)

\* C11's case: a Porkbun lane has issued a second check after a first one
\* that the rate limit rejected.
C11_Witness ==
    \E t \in Lanes :
        /\ lanes[t].provider = "porkbun" /\ Len(lanes[t].starts) >= 2
        /\ RateLimited(lanes[t].results[1])

\* C12 (as claimed): a lane whose last max_errors results were errors in a
\* row has issued no check after them.
C12_CircuitBreaker ==
    \A t \in Lanes :
        LET l == lanes[t]
        IN  \A k \in 1..(Len(l.results) - max_errors + 1) :
                (\A j \in k..(k + max_errors - 1) : ErrorResult(l.results[j]))
                    => Len(l.starts) <= k + max_errors - 1

\* The lane of provider p holds domain d.
InLaneOf(p, d) ==
    \E t \in Lanes : lanes[t].provider = p /\ d \in Range(lanes[t].domains)

\* The size of provider p's lane, 0 without a lane.
LaneSize(p) ==
    Cardinality({d \in Range(to_verify) : InLaneOf(p, d)})

\* C13 (as claimed): the i-th domain (from 0) is in the lane of provider
\* i mod n and in no other, the lanes together hold the input's domains and
\* nothing else, and two providers' lanes differ in size by one at most.
C13_RoundRobinPartition ==
    pc = "par" =>
        LET providers == ActiveProviders
            n == Len(providers)
        IN  /\ \A i \in 1..Len(to_verify) :
                  \A t \in Lanes :
                      to_verify[i] \in Range(lanes[t].domains)
                          <=> lanes[t].provider = providers[((i - 1) % n) + 1]
            /\ \A t, u \in Lanes :
                  t # u => Range(lanes[t].domains) \cap Range(lanes[u].domains) = {}
            /\ UNION {Range(lanes[t].domains) : t \in Lanes} = Range(to_verify)
            /\ \A p, q \in Range(providers) :
                  LaneSize(p) - LaneSize(q) \in {-1, 0, 1}

\* The lanes a worker of the pool is running.
RunningLanes == {t \in Lanes : pc \in {"par", "par_drain"} /\ LaneRunning(t)}

\* The check calls in flight.
InFlight(p) ==
    Cardinality({t \in Lanes : lanes[t].busy /\ lanes[t].provider = p})

VerificationRequested ==
    (verify_api \/ only_verify_api) /\ ActiveProviders # <<>>

\* C15 (as claimed): a run that was asked to verify ends with no row left
\* that is DNS-checked, unverified and available, however many names the
\* generator produced.
C15_VerifiesAllPending ==
    (pc = "exit" /\ VerificationRequested) => PossiblyAvailable(checked_df) = <<>>

\* A check of domain d answered that it is available.
ConfirmedAvailable(d) ==
    \E k \in 1..Len(CallsFor(d)) : CallsFor(d)[k].available = "True"

\* The export holds an entry for d written by the verification stage.
ExportedByApi(d) ==
    \E k \in 1..Len(available_file) :
        /\ available_file[k][1] = d
        /\ available_file[k][2] # "pending API verification"

\* C16 (as claimed): once the stage is over, a domain that a check confirmed
\* available has its entry in the export, and its record says api_verified
\* and available.
C16_ConfirmedIsRecorded ==
    StageFolded =>
        \A d \in DOMAIN calls :
            ConfirmedAvailable(d) =>
                /\ ExportedByApi(d)
                /\ \E i \in 1..Len(checked_df) : checked_df[i].domain = d
                /\ \A i \in 1..Len(checked_df) :
                      checked_df[i].domain = d =>
                          /\ checked_df[i].api_verified
                          /\ checked_df[i].available = "True"

\* C17 (as claimed): an entry is appended to the export only for a domain
\* that a registrar check has confirmed available.
C17_ExportOnlyConfirmed ==
    [][\A k \in (Len(available_file) + 1)..Len(available_file') :
          LET d == available_file'[k][1]
          IN  /\ d \in DOMAIN calls'
              /\ \E c \in 1..Len(calls'[d]) : calls'[d][c].available = "True"]_vars

\* ------------------------------------------------------------ DNS claims
\* The result of the probe behind the k-th row of new_rows.
ProbeResult(k) == dns_check(generated[probes[k].i], probes[k].resolution)

\* C18 (as claimed): a resolution that failed otherwise than by "no such
\* name" gives registered with the error attached, and its row is not
\* available.
C18_ProbeFailsConservative ==
    \A k \in 1..Len(probes) :
        probes[k].resolution \notin {"address", "gaierror_noname"} =>
            /\ ProbeResult(k).registered
            /\ ProbeResult(k).error # "None"
            /\ new_rows[k].available = "False"

\* C19: a probe of a name without a record gives (domain, not registered, no
\* error), a probe of a name with an address gives (domain, registered, no
\* error), and the domain returned is the domain probed.
C19_DnsClassification ==
    \A k \in 1..Len(probes) :
        LET o == ProbeResult(k)
            d == generated[probes[k].i]
        IN  /\ o.domain = d
            /\ new_rows[k].domain = d
            /\ probes[k].resolution = "gaierror_noname" =>
                  /\ ~o.registered /\ o.error = "None"
                  /\ new_rows[k].available = "True"
            /\ probes[k].resolution = "address" =>
                  /\ o.registered /\ o.error = "None"
                  /\ new_rows[k].available = "False"
                  /\ new_rows[k].note = "registered"

\* C19's case: the stage has had a name with an address and a name without
\* a record.
C19_Witness ==
    /\ \E k \in 1..Len(probes) : probes[k].resolution = "address"
    /\ \E k \in 1..Len(probes) : probes[k].resolution = "gaierror_noname"

\* How many times x occurs in s.
Count(s, x) == Cardinality({i \in 1..Len(s) : s[i] = x})

\* The error-log lines of the probes consumed, in order.
ErrorLines ==
    LET bad == SelectSeq([k \in 1..Len(probes) |-> ProbeResult(k)],
                         LAMBDA o : o.error # "None")
    IN  [k \in 1..Len(bad) |-> <<bad[k].domain, bad[k].error>>]

\* C20: whatever the probes give, each submitted candidate gets one row,
\* DNS-checked, unverified, available exactly when not registered, with the
\* probe's error in its own row and its own error-log line; the stage goes
\* on to the end and the ledger gains exactly these rows.
C20_OneRowPerCandidate ==
    /\ pc = "dns" =>
          /\ Len(new_rows) = Len(probes)
          /\ \A k, m \in 1..Len(probes) : k # m => probes[k].i # probes[m].i
          /\ {probes[k].i : k \in 1..Len(probes)} = (1..Len(generated)) \ pending
          /\ \A k \in 1..Len(probes) :
                LET o == ProbeResult(k)
                IN  /\ new_rows[k].domain = generated[probes[k].i]
                    /\ new_rows[k].dns_checked /\ ~new_rows[k].api_verified
                    /\ new_rows[k].available = (IF o.registered THEN "False" ELSE "True")
                    /\ o.error # "None" => new_rows[k].note = o.error
          /\ error_file = ErrorLines
    /\ pc = "dns_save" =>
          /\ Len(new_rows) = Len(generated)
          /\ \A d \in Range(generated) : Count([k \in 1..Len(new_rows) |-> new_rows[k].domain], d)
                                             = Count(generated, d)
          /\ checked_df = CsvRead(check_file.rows) \o new_rows

\* C20's case: a stage over two candidates or more has ended, one probe
\* having failed with an error and one having found no record.
C20_Witness ==
    /\ pc = "dns_save" /\ Len(generated) >= 2
    /\ \E k \in 1..Len(new_rows) : new_rows[k].note = "DNS query error"
    /\ \E k \in 1..Len(new_rows) : new_rows[k].available = "True"

\* ------------------------------------------------------------ run claims
\* What the run has completed is in the ledger file: every row the DNS stage
\* has built, and every domain a check has answered for, as verified.
ProgressInFile ==
    /\ \A k \in 1..Len(new_rows) :
          \E i \in 1..Len(check_file.rows) :
              check_file.rows[i].domain = new_rows[k].domain
    /\ \A d \in DOMAIN calls :
          \E i \in 1..Len(check_file.rows) :
              /\ check_file.rows[i].domain = d
              /\ check_file.rows[i].api_verified

\* C21 (as claimed): after a user interrupt no lane issues a new check, and
\* when the interrupted run ends, the results completed before the interrupt
\* are in the ledger file.
C21_InterruptKeepsProgress ==
    [][ /\ pc = "par_drain" =>
              \A t \in 1..Len(lanes) : Len(lanes'[t].starts) = Len(lanes[t].starts)
        /\ (pc' = "exit" /\ main_raised' = "KeyboardInterrupt") => ProgressInFile'
      ]_vars

\* C22 (as claimed): once the ledger file has failed to load or to save, the
\* run has ended with an exception let through to __main__, and has not
\* logged a stage as saved.
C22_LedgerIoIsFatal ==
    (run_log \cap {"load error", "save error"} # {}) =>
        /\ pc = "exit"
        /\ main_raised # "None"
        /\ run_log \cap {"DNS results saved", "API results saved"} = {}

\* ------------------------------------------------------------ load claims
\* The columns of the ledger file's header.
Header == DOMAIN check_file.rows[1]

\* The safe default of a column: empty for the string columns, false for the
\* boolean ones.
SafeDefault(c) ==
    CASE c \in {"domain", "note"} -> ""
      [] c = "available" -> "False"
      [] OTHER -> FALSE

\* C23 (as claimed): a ledger file that is read gives one record per row,
\* each with all five fields, a field the header lacks holding its safe
\* default.
C23_LoadBackFillsAllFields ==
    (pc # "load" /\ check_file.exists /\ "load error" \notin run_log) =>
        /\ Len(checked_df) = Len(check_file.rows)
        /\ \A i \in 1..Len(checked_df) :
              /\ DOMAIN checked_df[i] = Columns
              /\ \A c \in Columns \ Header : checked_df[i][c] = SafeDefault(c)

\* A registrar call has been issued in this run.
CallIssued ==
    \/ pc = "seq_call"
    \/ DOMAIN calls # {}
    \/ \E t \in 1..Len(lanes) : lanes[t].starts # <<>>

\* C24 (as claimed): when the first registrar call of a run that began with
\* the DNS stage is issued, the rows of that stage are in the ledger file;
\* and when a run whose verification stage has issued calls ends of itself,
\* the ledger file holds the whole DataFrame.
C24_SavedAfterEachStage ==
    /\ (~only_verify_api /\ CallIssued) =>
          /\ check_file.exists
          /\ \A k \in 1..Len(new_rows) :
                \E i \in 1..Len(check_file.rows) :
                    check_file.rows[i].domain = new_rows[k].domain
    /\ (pc = "exit" /\ DOMAIN calls # {} /\ main_raised = "None") =>
          check_file.rows = CsvWrite(checked_df)

\* C25 (as claimed): a verification stage that finds no active provider
\* fails with an error let through to its caller, having issued no registrar
\* call and changed no ledger record, in memory or on disk.  (Stated for the
\* runs whose ledger was loaded and saved without a failure.)
C25_NoProviderIsConfigurationError ==
    [][ (pc = "api_stage" /\ ActiveProviders = <<>>
         /\ run_log \cap {"load error", "save error"} = {}) =>
            /\ main_raised' # "None"
            /\ calls' = <<>>
            /\ checked_df' = checked_df
            /\ check_file' = check_file
      ]_vars

\* ------------------------------------------------------------ provider claims
\* The providers the stage has selected or sent a check call.
Participants ==
    {seq_starts[k].provider : k \in 1..Len(seq_starts)}
    \cup {lanes[t].provider : t \in 1..Len(lanes)}
    \cup UNION {{calls[d][k].provider : k \in 1..Len(calls[d])} : d \in DOMAIN calls}

\* C26 (as claimed): whatever config.json holds, a provider the stage selects
\* or sends a check call is configured active, and load_from_config hands out
\* no Porkbun client when the porkbun entry says active = false.
C26_OnlyActiveParticipate ==
    /\ \A p \in Participants : ProviderConfig(p).active
    /\ (\E i \in 1..Len(config_file) :
           config_file[i].name = "porkbun" /\ ~config_file[i].active)
          => load_from_config = "None"

\* ------------------------------------------------------------ check claims
\* C27 (as claimed): once the stage is over, a row whose check failed (its
\* note is the failure's) does not read as a Registered verdict, verified and
\* not available.
C27_FailureIsUnknown ==
    StageFolded =>
        \A i \in 1..Len(checked_df) :
            ErrorResult(checked_df[i]) =>
                ~(checked_df[i].api_verified /\ checked_df[i].available = "False")

\* The answers of a provider that carry no verdict of the registrar's: a
\* status other than 200, a body that does not parse or reports an error, an
\* exception of the request.
PorkbunFaults ==
    {"200 not SUCCESS", "200 malformed body", "400 rate limit", "HTTP error",
     "request exception"}

DynadotFaults ==
    {"200 error", "200 unexpected body", "200 malformed body", "HTTP error",
     "request exception"}

\* A result a check call returns: the triple's is_available is True, False or
\* None.
Returns(r) == r.available \in {"True", "False", "None"}

\* C29: whatever a provider answers, the check call returns a result, which
\* for an answer without a verdict is an error or the rate-limit rejection and
\* never "available"; every call of the stage has returned; and once the
\* stage is over every domain of the batch has been checked and its rows are
\* marked verified.
C29_ResponsesNeverRaise ==
    /\ \A response \in PorkbunResponses :
          /\ Returns(porkbun_check(response))
          /\ response \in PorkbunFaults =>
                (ErrorResult(porkbun_check(response)) \/ RateLimited(porkbun_check(response)))
    /\ \A response \in DynadotResponses :
          /\ Returns(dynadot_check(response))
          /\ response \in DynadotFaults => ErrorResult(dynadot_check(response))
    /\ \A d \in DOMAIN calls : \A k \in 1..Len(calls[d]) : Returns(calls[d][k])
    /\ StageFolded =>
          \A d \in Range(to_verify) :
              /\ d \in DOMAIN calls
              /\ \A i \in 1..Len(checked_df) :
                    checked_df[i].domain = d => checked_df[i].api_verified

\* C29's case: a stage over two domains or more has ended, the check of the
\* first having failed and the last having got its verdict.
C29_Witness ==
    /\ StageFolded /\ Len(to_verify) >= 2
    /\ \E i \in 1..Len(checked_df) :
          /\ checked_df[i].domain = to_verify[1]
          /\ ErrorResult(checked_df[i])
    /\ \E i \in 1..Len(checked_df) :
          /\ checked_df[i].domain = to_verify[Len(to_verify)]
          /\ checked_df[i].domain # to_verify[1]
          /\ checked_df[i].api_verified
          /\ ~ErrorResult(checked_df[i])

\* ------------------------------------------------------------ termination
\* The timeout a provider's request carries, in seconds, 0 for none:
\* requests.get(api_url, params=params, timeout=10) in dynadot_check,
\* requests.post(api_url, json=payload, headers=headers) in porkbun_check.
RequestTimeout(provider) == IF provider = "dynadot" THEN 10 ELSE 0

\* A check whose request carries a timeout returns.
TimedSeqReturn ==
    \E p \in {"porkbun", "dynadot"} :
        /\ RequestTimeout(p) > 0
        /\ \E r \in ApiResults(p) : SeqIteration(p, r, p, r)

TimedLaneReturn ==
    \E t \in 1..Len(lanes) :
        /\ RequestTimeout(lanes[t].provider) > 0
        /\ \E r \in ApiResults(lanes[t].provider), dur \in CallDurations :
              LaneStep(t, r, dur)

\* The steps that are taken whenever they can be: those of the strategy's
\* own code, and the returns of the requests that carry a timeout.  A request
\* without one returns when the remote end answers, if it does.
TimedStep ==
    \/ SeqCall
    \/ TimedSeqReturn
    \/ \E t \in 1..Len(lanes) : LaneCall(t)
    \/ TimedLaneReturn
    \/ \E t \in 1..Len(lanes) : ParCollect(t)
    \/ ParUpdate
    \/ SaveApi

LiveApi == WF_vars(TimedStep)

SpecApiLive == SpecApi /\ LiveApi

\* C28 (as claimed): every request carrying a timeout, a verification over a
\* finite list of domains that has begun comes to its end, whatever the
\* remote ends do.
C28_BatchTerminates == (pc \in {"seq", "par"}) ~> (pc = "exit")

\* ------------------------------------------------------------ sequential pacing
\* C30: in the sequential strategy each check call is followed by a sleep of
\* at least its provider's interval before the next call or the loop's end,
\* and any two calls to the same provider are at least that provider's
\* interval apart, whatever providers are drawn and whatever the checks
\* return, a retry after a rate-limit rejection included.
C30_SequentialPacing ==
    /\ \A k \in 1..(Len(seq_starts) - 1) :
          seq_starts[k + 1].at - seq_starts[k].at >= RateLimit(seq_starts[k].provider)
    /\ (pc \in {"seq", "api_save"} /\ seq_starts # <<>>) =>
          seq_clock - seq_starts[Len(seq_starts)].at
              >= RateLimit(seq_starts[Len(seq_starts)].provider)
    /\ \A j, k \in 1..Len(seq_starts) :
          (j < k /\ seq_starts[j].provider = seq_starts[k].provider) =>
              seq_starts[k].at - seq_starts[j].at >= RateLimit(seq_starts[k].provider)

\* C30's case: Porkbun has rejected a check for its rate limit, the retry
\* went to Dynadot, and a later check went to Porkbun again.
C30_Witness ==
    /\ lanes = <<>>
    /\ \E k \in 1..(Len(seq_starts) - 2) :
          /\ seq_starts[k].provider = "porkbun"
          /\ seq_starts[k + 1].provider = "dynadot"
          /\ seq_starts[k + 2].provider = "porkbun"
    /\ \E d \in DOMAIN calls :
          /\ Len(calls[d]) >= 2
          /\ calls[d][1].provider = "porkbun" /\ calls[d][1].available = "None"
          /\ calls[d][2].provider = "dynadot"

\* ------------------------------------------------------------ one more run
\* The ledger files an earlier run (--characters b) has left: its one name
\* found registered, or found without a DNS record and not yet verified.
RunLedgers ==
    { << Row("b.com", TRUE, FALSE, "False", "registered") >>,
      FreeLedger(<< "b.com" >>) }

\* python domain_finder.py ..., the last run of MaxRuns, over the ledger
\* file and the export file the earlier runs have left.
InitRun ==
    /\ characters = <<"a", "b">> /\ length = 1 /\ limit = 1
    /\ prefix = "" /\ suffix = "" /\ tld = ".com" /\ pattern = <<>>
    /\ exclude_set = {}
    /\ generated = <<>>
    /\ gen_raised = FALSE
    /\ first_generated = <<>>
    /\ gen_pc = "main"
    /\ config_file \in Configs
    /\ \E df \in RunLedgers :
          /\ check_file = [exists |-> TRUE, rows |-> CsvWrite(df)]
          /\ available_file =
                [i \in 1..Len(PossiblyAvailable(df)) |->
                    <<PossiblyAvailable(df)[i], "pending API verification">>]
    /\ error_file = <<>>
    /\ checked_df = <<>>
    /\ pc = "idle"
    /\ runs = MaxRuns - 1
    /\ run_log = {}
    /\ main_raised = "None"
    /\ verify_api = FALSE
    /\ only_verify_api = FALSE
    /\ api_workers = 1
    /\ pending = {}
    /\ new_rows = <<>>
    /\ probes = <<>>
    /\ to_verify = <<>>
    /\ seq_i = 0
    /\ seq_clock = 0
    /\ seq_starts = <<>>
    /\ lanes = <<>>
    /\ results = <<>>
    /\ calls = <<>>
    /\ ToolsIdle

SpecRun == InitRun /\ [][Next]_vars

\* ------------------------------------------------------------ ledger growth
\* C31: no record is ever deleted from the ledger: whatever a run does, a
\* failed load of the ledger file included, every domain of the persisted
\* ledger file is still in it after each step.
C31_LedgerNeverShrinks ==
    [][DomainSet(check_file.rows) \subseteq DomainSet(check_file'.rows)]_vars

\* ------------------------------------------------------------ single writer
\* C32: during the DNS stage and the parallel strategy no worker and no lane
\* thread mutates the ledger: the ledger file is left alone, and the
\* DataFrame changes only in the orchestrating thread's step at the stage's
\* end, once every probe's result has been consumed (run_dns_batch's concat)
\* or every lane's results have been collected (the update loop), and then
\* by exactly the results collected.
C32_SingleWriter ==
    [][(pc \in {"dns", "par", "par_drain"}) =>
          /\ check_file' = check_file
          /\ checked_df' # checked_df =>
                \/ /\ pc = "dns" /\ pending = {}
                   /\ checked_df' = checked_df \o new_rows
                \/ /\ pc = "par"
                   /\ \A t \in 1..Len(lanes) : LaneDone(t) /\ lanes[t].collected
                   /\ checked_df' = ApplyResults(checked_df, results)]_vars

\* A lane has returned a result for a domain whose row the DataFrame still
\* holds unverified.
C32_Witness ==
    /\ pc = "par"
    /\ \E t \in 1..Len(lanes) :
          /\ lanes[t].results # <<>>
          /\ \E i \in 1..Len(checked_df) :
                /\ checked_df[i].domain = lanes[t].results[1].domain
                /\ ~checked_df[i].api_verified

\* ------------------------------------------------------------ frame of the stage
\* The positions of the verification stage, from its start to its save.
InVerification == pc \in {"api_stage", "seq", "seq_call", "par", "par_drain", "api_save"}

\* C39: the verification stage, sequential or parallel, only updates
\* existing records of the DataFrame: no step of it adds or removes a row or
\* changes a row's domain or dns_checked, and a row whose domain is not in
\* the list being verified keeps every field.
C39_StageOnlyUpdates ==
    [][InVerification =>
          /\ Len(checked_df') = Len(checked_df)
          /\ \A i \in 1..Len(checked_df) :
                /\ checked_df'[i].domain = checked_df[i].domain
                /\ checked_df'[i].dns_checked = checked_df[i].dns_checked
                /\ checked_df[i].domain \notin Range(to_verify)
                      => checked_df'[i] = checked_df[i]]_vars

\* The stage has updated a row while the DataFrame holds another whose
\* domain is not in the list.
C39_Witness ==
    /\ pc = "api_save"
    /\ \E i, j \in 1..Len(checked_df) :
          /\ checked_df[i].api_verified
          /\ checked_df[i].domain \in Range(to_verify)
          /\ checked_df[j].domain \notin Range(to_verify)

\* ------------------------------------------------------------ completion order
\* The records the probes consumed so far stand for, whatever the order they
\* completed in: for each, the row of its own domain's result.
RecordsOf(ps) == {DnsRow(dns_check(generated[p.i], p.resolution)) : p \in Range(ps)}

\* C33: the DNS stage consumes the probes as they complete, and the order
\* does not matter: after every turn the rows gathered are, as a set, the
\* records of the probes consumed, each made from its own domain's result,
\* and the stage's end adds to the DataFrame exactly the records of all the
\* candidates' probes.
C33_OrderIndependent ==
    [][pc = "dns" =>
          /\ pc' = "dns" => Range(new_rows') = RecordsOf(probes')
          /\ pc' = "dns_save" =>
                /\ {p.i : p \in Range(probes)} = 1..Len(generated)
                /\ Range(checked_df') = Range(checked_df) \cup RecordsOf(probes)]_vars

\* The stage has ended after the second candidate's probe completed before
\* the first's, the two with different results.
C33_Witness ==
    /\ pc = "dns_save"
    /\ Len(generated) >= 2
    /\ generated[1] # generated[2]
    /\ new_rows[1].domain = generated[2]
    /\ new_rows[2].domain = generated[1]
    /\ new_rows[1].available # new_rows[2].available

\* ------------------------------------------------------------ two lanes
\* python domain_finder.py --only-verify-api --api-workers 2, at the call of
\* run_api_verification_stage: Porkbun and Dynadot are active with keys, the
\* ledger holds the four names of --characters ab --length 2, so that the
\* parallel strategy gives each provider a lane of two domains.
InitPar ==
    /\ characters = <<"a", "b">> /\ length = 1 /\ limit = 1
    /\ prefix = "" /\ suffix = "" /\ tld = ".com" /\ pattern = <<>>
    /\ generated = <<>>
    /\ gen_raised = FALSE
    /\ first_generated = <<>>
    /\ gen_pc = "main"
    /\ LET names == generate_domains(<<"a", "b">>, 2, 4, "", "", ".com", {}, <<>>)
       IN  /\ check_file = [exists |-> TRUE, rows |-> CsvWrite(FreeLedger(names))]
           /\ available_file =
                 [i \in 1..Len(names) |-> <<names[i], "pending API verification">>]
    /\ config_file = << Provider("porkbun", TRUE, "key"), Provider("dynadot", TRUE, "key") >>
    /\ error_file = <<>>
    /\ checked_df = CsvRead(check_file.rows)
    /\ exclude_set = DomainSet(checked_df)
    /\ to_verify = PossiblyAvailable(checked_df)
    /\ pc = "api_stage"
    /\ runs = 0
    /\ run_log = {}
    /\ main_raised = "None"
    /\ verify_api = FALSE
    /\ only_verify_api = TRUE
    /\ api_workers = 2
    /\ pending = {}
    /\ new_rows = <<>>
    /\ probes = <<>>
    /\ seq_i = 0
    /\ seq_clock = 0
    /\ seq_starts = <<>>
    /\ lanes = <<>>
    /\ results = <<>>
    /\ calls = <<>>
    /\ ToolsIdle

NextPar ==
    \/ ApiStage
    \/ \E t \in 1..Len(lanes) : LaneCall(t)
    \/ \E t \in 1..Len(lanes) :
          \E r \in ApiResults(lanes[t].provider), dur \in CallDurations :
              LaneStep(t, r, dur)
    \/ \E t \in 1..Len(lanes) : ParCollect(t)
    \/ ParUpdate
    \/ SaveApi

SpecPar == InitPar /\ [][NextPar]_vars

\* The time the parallel strategy takes: the pool has min(max_workers,
\* len(tasks)) threads, one per lane here, so the lanes begin together and
\* the strategy ends with the lane that ends last.
RECURSIVE MaxClock(_)
MaxClock(n) ==
    IF n = 0 THEN 0
    ELSE IF lanes[n].clock > MaxClock(n - 1) THEN lanes[n].clock ELSE MaxClock(n - 1)

StageTime == MaxClock(Len(lanes))

\* C34: the lanes pace independently.  With Porkbun (interval 11) and
\* Dynadot (interval 2) each verifying two domains in its own lane, the calls
\* taking no time, the Dynadot lane ends at 2 x 2 = 4, the Porkbun lane at
\* 2 x 11 = 22, and the strategy at the larger of the two, 22, not at their
\* sum.
C34_LanesPaceIndependently ==
    (pc = "api_save" /\ \A t \in Lanes : lanes[t].latency = 0) =>
        /\ Len(lanes) = 2 /\ Min(api_workers, Len(lanes)) = Len(lanes)
        /\ \A t \in Lanes :
              /\ Len(lanes[t].domains) = 2
              /\ lanes[t].clock = 2 * RateLimit(lanes[t].provider)
        /\ {lanes[t].provider : t \in Lanes} = {"porkbun", "dynadot"}
        /\ {lanes[t].clock : t \in Lanes} = {2 * 2, 2 * 11}
        /\ StageTime = 22

\* The two lanes have run to their ends, no call having taken time.
C34_Witness ==
    /\ pc = "api_save"
    /\ Len(lanes) = 2
    /\ \A t \in Lanes : lanes[t].latency = 0 /\ Len(lanes[t].results) = 2

\* ------------------------------------------------------------ the two strategies
\* What the sequential loop writes into a row for the answer it ends its
\* turn with (the answer of the retry after a rate-limit rejection):
\* `available` is True for a truthy answer and False for any other.
SeqAvailable(answer) == IF answer = "True" THEN "True" ELSE "False"

\* C37 (as claimed): the two strategies leave the same values in the rows.
\* The sequential loop leaves in each row it checked the value above for the
\* last answer given for the domain; so does then, for the same answers,
\* the parallel strategy.
C37_StrategiesAgree ==
    StageFolded =>
        \A i \in 1..Len(checked_df) :
            LET d == checked_df[i].domain
            IN  CallsFor(d) # <<>> =>
                   /\ checked_df[i].api_verified
                   /\ checked_df[i].available =
                         SeqAvailable(CallsFor(d)[Len(CallsFor(d))].available)

\* ------------------------------------------------------------ batch_check
\* Most domains handed to a batch_check, and largest max_errors drawn.
MaxBatch == 3
MaxErrors == 2

\* What check_domain of a provider client (PorkbunAPI, DynadotAPI) returns,
\* (available, note), by its exits.  The notes stand for the strings of the
\* source: "price" for "价格: ...", "registered" for "域名已注册", "API error"
\* for "API错误: ...", "JSON parse error" for "JSON解析错误: ...", "HTTP error"
\* for "HTTP错误 ...", "request timeout" for "请求超时", "request exception"
\* for "请求异常: ...", "unknown error" for "未知错误: ...", "Porkbun rate
\* limit" for "Porkbun速率限制" and "response format abnormal" for
\* "API返回格式异常".
ClientOutcomes(provider) ==
    { [available |-> "True", note |-> "price"],
      [available |-> "False", note |-> "registered"],
      [available |-> "False", note |-> "API error"],
      [available |-> "False", note |-> "JSON parse error"],
      [available |-> "False", note |-> "HTTP error"],
      [available |-> "False", note |-> "request timeout"],
      [available |-> "False", note |-> "request exception"],
      [available |-> "False", note |-> "unknown error"] }
    \cup (IF provider = "porkbun"
          THEN { [available |-> "None", note |-> "Porkbun rate limit"] }
          ELSE { [available |-> "False", note |-> "response format abnormal"] })

\* "错误" in note or "异常" in note, over the notes above.
MentionsError(note) ==
    \/ note \in {"API error", "JSON parse error", "HTTP error", "unknown error"}
    \/ note \in {"request exception", "response format abnormal"}

\* available is None and "速率限制" in note (PorkbunAPI.batch_check only)
ClientRateLimited(provider, r) ==
    provider = "porkbun" /\ r.available = "None" /\ r.note = "Porkbun rate limit"

\* client.batch_check(domains, max_errors) is called.
InitBatch ==
    /\ characters = <<"a", "b">> /\ length = 1 /\ limit = 1
    /\ prefix = "" /\ suffix = "" /\ tld = ".com" /\ pattern = <<>>
    /\ exclude_set = {}
    /\ generated = <<>>
    /\ gen_raised = FALSE
    /\ first_generated = <<>>
    /\ gen_pc = "main"
    /\ config_file = <<>>
    /\ check_file = [exists |-> FALSE, rows |-> <<>>]
    /\ available_file = <<>>
    /\ error_file = <<>>
    /\ checked_df = <<>>
    /\ pc = "idle"
    /\ runs = 0
    /\ run_log = {}
    /\ main_raised = "None"
    /\ verify_api = FALSE
    /\ only_verify_api = FALSE
    /\ api_workers = 1
    /\ pending = {}
    /\ new_rows = <<>>
    /\ probes = <<>>
    /\ to_verify = <<>>
    /\ seq_i = 0
    /\ seq_clock = 0
    /\ seq_starts = <<>>
    /\ lanes = <<>>
    /\ results = <<>>
    /\ calls = <<>>
    /\ batch_provider \in {"porkbun", "dynadot"}
    /\ batch_domains \in 1..MaxBatch
    /\ batch_max_errors \in 1..MaxErrors
    /\ batch_i = 1
    /\ consecutive_errors = 0
    /\ batch_results = <<>>
    /\ batch_pc = "loop"
    /\ progress_file = <<>>
    /\ restart = FALSE
    /\ force = FALSE
    /\ prefixes = <<>>
    /\ processed_prefixes = {}
    /\ scan_i = 0
    /\ scanned = <<>>
    /\ scan_pc = "idle"

\* batch_check, one turn of `for domain in domains`: check_domain returns r1;
\* PorkbunAPI's loop sleeps after a rate-limit rejection and checks again,
\* which returns r2; the outcome is stored, and the counter is increased
\* (and the loop left at max_errors) or reset by what the note says.
BatchTurn(r1, r2) ==
    /\ batch_pc = "loop"
    /\ r1 \in ClientOutcomes(batch_provider)
    /\ r2 \in ClientOutcomes(batch_provider)
    /\ ~ClientRateLimited(batch_provider, r1) => r2 = r1
    /\ LET final == IF ClientRateLimited(batch_provider, r1) THEN r2 ELSE r1
       IN  /\ batch_results' = Append(batch_results, final)
           /\ IF MentionsError(final.note)
              THEN /\ consecutive_errors' = consecutive_errors + 1
                   /\ batch_pc' =
                         IF consecutive_errors' >= batch_max_errors THEN "break"
                         ELSE IF batch_i = batch_domains THEN "returned"
                         ELSE "loop"
              ELSE /\ consecutive_errors' = 0
                   /\ batch_pc' = IF batch_i = batch_domains THEN "returned"
                                  ELSE "loop"
    /\ batch_i' = batch_i + 1
    /\ UNCHANGED << genVars, pipeVars, scanVars, batch_provider, batch_domains,
                    batch_max_errors >>

NextBatch ==
    \E r1, r2 \in ClientOutcomes(batch_provider) : BatchTurn(r1, r2)

SpecBatch == InitBatch /\ [][NextBatch]_vars

\* A call that failed: its outcome is no definitive verdict (available at a
\* price, or registered).
FailedCall(r) == r.note \notin {"price", "registered"}

\* The failed outcomes at the end of rs, counted back to the last verdict.
RECURSIVE TrailingFailures(_)
TrailingFailures(rs) ==
    IF rs = <<>> \/ ~FailedCall(rs[Len(rs)]) THEN 0
    ELSE 1 + TrailingFailures(SubSeq(rs, 1, Len(rs) - 1))

\* C38 (as claimed): in batch_check the counter of consecutive failures is
\* increased by every failed call (HTTP error, parse error, request
\* exception, timeout, a rate-limit rejection that stands after the retry)
\* and reset only by a definitive verdict, so that it counts the failed
\* outcomes since the last verdict; and the batch is left early exactly when
\* it reaches max_errors.
C38_ConsecutiveFailures ==
    /\ consecutive_errors = TrailingFailures(batch_results)
    /\ batch_pc = "break" <=> (batch_pc # "idle" /\ consecutive_errors >= batch_max_errors)

\* ------------------------------------------------------------ run_full_scan.py
\* Most rows of full_scan_progress.csv at the start of an invocation.
MaxProgress == 3

\* generate_prefixes(), over the alphabet drawn: the one-letter prefixes,
\* then a two-letter one; deduplicated.  A prefix is the sequence of its
\* letters.
generate_prefixes == << <<"a">>, <<"b">>, <<"a", "b">> >>

\* args.prefix of the invocations drawn: none, or a prefix that
\* generate_prefixes() does not list.
PrefixArgs == { <<>>, <<"b", "b">> }

\* args.limit of run_full_scan.py, handed on as --limit.
ScanLimit == 2

\* No run of domain_finder.py is going on; the scan is at its start.
InitScan ==
    /\ characters = <<"a", "b">> /\ length = 1 /\ limit = 1
    /\ prefix = "" /\ suffix = "" /\ tld = ".com" /\ pattern = <<>>
    /\ exclude_set = {}
    /\ generated = <<>>
    /\ gen_raised = FALSE
    /\ first_generated = <<>>
    /\ gen_pc = "main"
    /\ config_file = <<>>
    /\ PipeIdle

\* python run_full_scan.py [--prefix p] [--restart] [--force]: the prefix
\* list is settled (args.prefix, or generate_prefixes()).
ScanStart ==
    /\ scan_pc = "idle"
    /\ Len(progress_file) <= MaxProgress
    /\ \E p \in PrefixArgs : prefixes' = IF p # <<>> THEN << p >> ELSE generate_prefixes
    /\ restart' \in BOOLEAN
    /\ force' \in BOOLEAN
    /\ processed_prefixes' = {}
    /\ scan_i' = 0
    /\ scanned' = <<>>
    /\ scan_pc' = "start"
    /\ UNCHANGED << genVars, pipeVars, batchVars, progress_file >>

\* run_full_scan up to its loop: the rows of the progress file are loaded
\* unless --restart (or there is no file); if as many prefixes are loaded as
\* the list has, the set is cleared and the whole list is scanned again.
ScanLoad ==
    /\ scan_pc = "start"
    /\ LET loaded == IF progress_file # <<>> /\ ~restart
                     THEN Range(progress_file) ELSE {}
           total_prefixes_to_process == Len(prefixes) - Cardinality(loaded)
       IN  processed_prefixes' = IF total_prefixes_to_process = 0 THEN {} ELSE loaded
    /\ scan_i' = 1
    /\ scan_pc' = "loop"
    /\ UNCHANGED << genVars, pipeVars, batchVars, progress_file, restart, force,
                    prefixes, scanned >>

\* for i, prefix in enumerate(prefixes, 1): a processed prefix is passed
\* over unless --force.
ScanSkip ==
    /\ scan_pc = "loop"
    /\ scan_i <= Len(prefixes)
    /\ prefixes[scan_i] \in processed_prefixes /\ ~force
    /\ scan_i' = scan_i + 1
    /\ UNCHANGED << genVars, pipeVars, batchVars, progress_file, restart, force,
                    prefixes, processed_prefixes, scanned, scan_pc >>

\* The loop's body up to run_domain_checker: domain_finder.py is launched
\* with --letters --length 4 --prefix <prefix> --limit <limit> --tld .com,
\* and its generator produces the candidates of that invocation.
ScanLaunch ==
    /\ scan_pc = "loop"
    /\ scan_i <= Len(prefixes)
    /\ ~(prefixes[scan_i] \in processed_prefixes /\ ~force)
    /\ characters' = <<"a", "b">>
    /\ length' = 4
    /\ prefix' = Join(prefixes[scan_i])
    /\ limit' = ScanLimit
    /\ tld' = ".com"
    /\ generated' = generate_domains(characters', length', limit', prefix', suffix,
                                     tld', exclude_set, pattern)
    /\ scanned' = Append(scanned, prefixes[scan_i])
    /\ scan_pc' = "scanning"
    /\ UNCHANGED << suffix, pattern, exclude_set, gen_raised, first_generated, gen_pc,
                    pipeVars, batchVars, progress_file, restart, force, prefixes,
                    processed_prefixes, scan_i >>

\* run_domain_checker has returned (True, or False after a failure or the
\* timeout): save_batch_progress appends the prefix's row, the loop pauses
\* and goes on.
ScanReturn ==
    /\ scan_pc = "scanning"
    /\ progress_file' = Append(progress_file, prefixes[scan_i])
    /\ scan_i' = scan_i + 1
    /\ scan_pc' = "loop"
    /\ UNCHANGED << genVars, pipeVars, batchVars, restart, force, prefixes,
                    processed_prefixes, scanned >>

\* Ctrl-C while a prefix is scanned: sigint_handler calls sys.exit(0), the
\* prefix gets no row.
ScanInterrupt ==
    /\ scan_pc = "scanning"
    /\ scan_pc' = "interrupted"
    /\ UNCHANGED << genVars, pipeVars, batchVars, progress_file, restart, force,
                    prefixes, processed_prefixes, scan_i, scanned >>

\* The loop is through the list.
ScanEnd ==
    /\ scan_pc = "loop"
    /\ scan_i > Len(prefixes)
    /\ scan_pc' = "done"
    /\ UNCHANGED << genVars, pipeVars, batchVars, progress_file, restart, force,
                    prefixes, processed_prefixes, scan_i, scanned >>

\* The process has ended: the progress file remains.
ScanExit ==
    /\ scan_pc \in {"done", "interrupted"}
    /\ scan_pc' = "idle"
    /\ UNCHANGED << genVars, pipeVars, batchVars, progress_file, restart, force,
                    prefixes, processed_prefixes, scan_i, scanned >>

NextScan ==
    \/ ScanStart
    \/ ScanLoad
    \/ ScanSkip
    \/ ScanLaunch
    \/ ScanReturn
    \/ ScanInterrupt
    \/ ScanEnd
    \/ ScanExit

SpecScan == InitScan /\ [][NextScan]_vars

\* ------------------------------------------------------------ scan claims
\* The rows the progress file held when the invocation began: every scan
\* that returned has added one since.
StartRows ==
    LET returned == Len(scanned) - (IF scan_pc \in {"scanning", "interrupted"} THEN 1 ELSE 0)
    IN  SubSeq(progress_file, 1, Len(progress_file) - returned)

\* C35 (as claimed): an invocation without --restart and without --force
\* that got through the list has scanned, in the list's order, exactly the
\* prefixes that had no row in the progress file, or the whole list if every
\* prefix had one; and a row is only ever written for the prefix whose scan
\* has just returned.
C35_ResumeSkipsDone ==
    [][/\ progress_file' # progress_file =>
             /\ scan_pc = "scanning"
             /\ scanned[Len(scanned)] = prefixes[scan_i]
             /\ progress_file' = Append(progress_file, prefixes[scan_i])
       /\ (scan_pc' = "done" /\ ~restart /\ ~force) =>
             LET had == Range(StartRows)
             IN  IF Range(prefixes) \subseteq had
                 THEN scanned = prefixes
                 ELSE scanned = SelectSeq(prefixes, LAMBDA p : p \notin had)]_vars

\* C36 (as claimed): every candidate of the generator invocation launched
\* for a prefix p is a .com name whose label has exactly 4 letters and
\* starts with p.
C36_FourLetterNames ==
    scan_pc = "scanning" =>
        LET p == prefixes[scan_i]
        IN  \A k \in 1..Len(generated) :
                \E rest \in [1..(4 - Len(p)) -> Chars] :
                    generated[k] = Join(p) \o Join(rest) \o ".com"

====
